---- MODULE Spec2Model ----
(***************************************************************************)
(* Model of the Nutanix cluster console: the App shell (connection set and *)
(* selected target), the ClusterManager's connect workflows (single target *)
(* and batch of selected presets) and the DataExplorer (category, query    *)
(* parameters, fetch, result set, table, export).                          *)
(*                                                                         *)
(* React state hooks are the variables; one action is one event handler    *)
(* (or the continuation of an async handler after its await) together with *)
(* the effects that React runs after the render the handler causes.        *)
(***************************************************************************)
EXTENDS Integers, Sequences, FiniteSets, TLC

\* ------------------------------------------------------------------ bounds

\* Number of connect attempts (handleAddCluster past its validation) in a run.
MaxConnects == 2
\* Number of requests sent to the query service in a run.
MaxFetches == 2
\* Number of parameters that hold a value typed by the user at one time.
MaxEdited == 1
\* the leading columns of a category's menu that get toggled
MaxToggleKeys == 2
\* the rows of a result set on display
MaxRows == 3
\* the export requests awaiting their response at one time
MaxExports == 1
\* Number of ids drawn from Date.now() in a run that has batch connects.
MaxVerifications == 4
\* Number of ids drawn from Date.now() in a run of the preset store.
MaxStamps == 2
\* the file reads of the import that are under way at one time
MaxReads == 1

\* ------------------------------------------------------- constants.ts

CATEGORIES == <<"VM", "Hardware", "Performance", "Resources">>

CategorySet == {CATEGORIES[i] : i \in DOMAIN CATEGORIES}

FIELD_DEFINITIONS ==
  [VM |-> <<"clusterName", "name", "uuid", "powerState", "macAddress",
            "ipAddresses", "vDisk", "numVcpus", "memoryMb">>,
   Hardware |-> <<"hostName", "serial", "model", "cpuModel", "numCores",
                  "memoryCapacity", "blockSerial", "disk", "diskModel">>,
   Performance |-> <<"entityName", "iops", "latency", "bandwidth",
                     "cpuUsage", "memoryUsage">>,
   Resources |-> <<"hostName", "vmCount", "numaOver", "metric1", "metric2",
                   "metric3", "metric4", "result">>]

\* default columns that name a column of another category
DefaultFieldsWithForeignKey ==
  [VM |-> <<"clusterName", "name", "hostName">>,
   Hardware |-> <<"hostName", "serial", "model", "cpuModel", "numCores",
                  "memoryCapacity", "disk">>,
   Performance |-> <<"entityName", "iops", "bandwidth", "latency",
                     "cpuUsage", "memoryUsage">>,
   Resources |-> <<"hostName", "vmCount", "numaOver", "metric1", "metric2",
                   "metric3", "metric4", "result">>]

DEFAULT_FIELDS ==
  [VM |-> <<"clusterName", "name", "powerState">>,
   Hardware |-> <<"hostName", "serial", "model", "cpuModel", "numCores",
                  "memoryCapacity", "disk">>,
   Performance |-> <<"entityName", "iops", "bandwidth", "latency",
                     "cpuUsage", "memoryUsage">>,
   Resources |-> <<"hostName", "vmCount", "numaOver", "metric1", "metric2",
                   "metric3", "metric4", "result">>]

\* ------------------------------------------------------------------ state

VARIABLES
  \* App
  clusters,           \* useState<ClusterConfig[]>: sequence of cluster records
  selectedClusterId,  \* useState<string | null>: "null", "" or an id
  \* ClusterManager
  verifying,          \* useState(false)
  errorMsg,           \* useState<string | null>: "null" or the message
  pendingVerify,      \* the clusterToAdd of the handleAddCluster calls
                      \* awaiting verifyClusterConnection
  connects,           \* connect attempts so far; Date.now() of an attempt
  isModalOpen,        \* useState(false): the Add Cluster modal is shown
  presets,            \* useState([]): sequence of preset records
  storage,            \* localStorage 'clusterPresets': {} when absent, or
                      \* {document}
  reading,            \* the FileReader loads of handleFileUpload that have
                      \* not fired onload: [file, presets], presets being
                      \* the value in the closure of the handler
  mountEffect,        \* the mount effect of ClusterManager: "pending",
                      \* "done" or "threw"
  selectedPresets,    \* useState<Set<string>>(new Set()): preset ids
  batch,              \* the connectSelectedPresets calls, each with its
                      \* locals: [list, i, current, successList, failureList,
                      \* done]; list is selectedPresetsList, i the index of
                      \* the loop, current the clusterToAdd under
                      \* verification; the record of the last call is kept
                      \* after it returned (done)
  \* DataExplorer (the state of the mounted instance; the initial state of
  \* the next instance while none is mounted)
  category,
  selectedFields,
  data,
  loading,
  startTime,
  endTime,
  interval,
  aggregationType,
  ratio,
  rf,
  cvmVcore,
  cvmMemory,
  sortField,          \* useState<string | null>(null): "null" or a field key
  sortDirection,      \* useState<'asc' | 'desc'>('asc')
  expandedClusters,   \* useState<Set<string>>(new Set())
  \* the loadData calls suspended at their await: one record per request
  \* the query service has not answered yet
  inflight,
  \* what the last step did to the outside world
  sent,               \* the request fetchData sent in the last step: {} or {req}
  alerted,            \* the alert() raised by the last step, "" when none
  exported,           \* the request exportToXLSX sent in the last step:
                      \* {} or {req}
  \* the exportToXLSX calls suspended at their await
  exporting,
  \* history
  latest              \* the most recently sent request: its number in issue
                      \* order, its status ("pending", then "ok" or "failed")
                      \* and, while it is pending, data as it was when it was
                      \* sent and whether another request of the component
                      \* was outstanding then

appVars == <<clusters, selectedClusterId>>
storeVars == <<presets, storage, reading, mountEffect>>
presetVars == <<storeVars, selectedPresets>>
managerVars == <<verifying, errorMsg, pendingVerify, connects, isModalOpen,
                 presetVars, batch>>
paramVars == <<startTime, endTime, interval, aggregationType, ratio, rf,
               cvmVcore, cvmMemory>>
viewVars == <<sortField, sortDirection, expandedClusters>>
explorerVars == <<category, selectedFields, data, loading, paramVars, viewVars>>
serviceVars == <<inflight, latest>>
outputVars == <<sent, alerted>>
exportVars == <<exported, exporting>>
vars == <<appVars, managerVars, explorerVars, serviceVars, outputVars,
          exportVars>>

\* a step that is no part of an export
NoExport == exported' = {} /\ UNCHANGED exporting


\* ---------------------------------------------------------------- helpers

Min(S) == CHOOSE x \in S : \A y \in S : x <= y

Digits == <<"0", "1", "2", "3", "4", "5", "6", "7", "8", "9">>

RECURSIVE NatToString(_)
NatToString(n) ==
  IF n < 10 THEN Digits[n + 1]
  ELSE NatToString(n \div 10) \o Digits[(n % 10) + 1]

\* Number.prototype.toString() on the integers the inputs can hold
toString(n) == IF n < 0 THEN "-" \o NatToString(-n) ELSE NatToString(n)

\* A JSON text is modelled by what JSON.parse makes of it: it is not well
\* formed, or it denotes a value that is an array of items or something else.
\* An item that is an object is the record of its members; null and a number
\* are records with the one field json.
NotJSON == [wellFormed |-> FALSE]

\* an object without the members whose value is undefined
DropUndefined(object) ==
  [member \in {m \in DOMAIN object : object[m] # "undefined"} |->
     object[member]]

\* JSON.stringify of an array of objects: members whose value is undefined
\* are left out
JSONstringify(array) ==
  [wellFormed |-> TRUE, isArray |-> TRUE,
   items |-> [k \in DOMAIN array |-> DropUndefined(array[k])]]

\* App.tsx: clusters.find(c => c.id === selectedClusterId), {} for undefined
ActiveCluster(cs, sel) ==
  LET idx == {i \in DOMAIN cs : cs[i].id = sel}
  IN  IF idx = {} THEN {} ELSE {cs[Min(idx)]}

activeCluster == ActiveCluster(clusters, selectedClusterId)

\* the parameter state captured by the loadData closure of a render
Params ==
  [startTime |-> startTime, endTime |-> endTime, interval |-> interval,
   aggregationType |-> aggregationType, ratio |-> ratio, rf |-> rf,
   cvmVcore |-> cvmVcore, cvmMemory |-> cvmMemory]

\* useState initial values of the parameter hooks
InitialParams ==
  [startTime |-> "", endTime |-> "", interval |-> 30,
   aggregationType |-> "average", ratio |-> 3, rf |-> 2,
   cvmVcore |-> 0, cvmMemory |-> 0]

\* formatDateTime(oneHourAgo) and formatDateTime(now), for a switch to
\* Performance at 01:00 on 2026-01-01
DefaultStartTime == "2026-01-01T00:00"
DefaultEndTime == "2026-01-01T01:00"

\* ------------------------------------------------- nutanixService.fetchData

\* The URL query fetchData builds, as the set of its <<key, value>> pairs.
\* Only these keys are ever appended; the options object's other members
\* (cvmVcore, cvmMemory, ignoreCache) are not read.
FetchQuery(cat, pp) ==
  {<<"category", cat>>}
  \cup (IF cat = "Performance"
        THEN (IF pp.startTime # "" THEN {<<"startTime", pp.startTime>>} ELSE {})
             \cup (IF pp.endTime # "" THEN {<<"endTime", pp.endTime>>} ELSE {})
             \cup (IF pp.interval # 0
                   THEN {<<"interval", toString(pp.interval)>>} ELSE {})
             \cup (IF pp.aggregationType # ""
                   THEN {<<"aggregationType", pp.aggregationType>>} ELSE {})
        ELSE {})
  \cup (IF cat = "Resources"
        THEN (IF pp.ratio # 0 THEN {<<"ratio", toString(pp.ratio)>>} ELSE {})
             \cup (IF pp.rf # 0 THEN {<<"rf", toString(pp.rf)>>} ELSE {})
        ELSE {})

\* fetchData(cluster, category, options): POST /api/fetch-data?<query> with
\* the cluster as JSON body
fetchData(cl, cat, options) == [query |-> FetchQuery(cat, options), body |-> cl]

\* the rows the service returns for the outstanding request f: rows of its
\* category, read from its cluster
Rows(f) == <<[fetch |-> f.id, category |-> f.category, cluster |-> f.cluster]>>

\* ------------------------------------------------------ DataExplorer.loadData

\* the two early returns of loadData
LoadDataSkips(cat, pp) ==
  \/ cat = "Performance" /\ (pp.startTime = "" \/ pp.endTime = "")
  \/ cat = "Resources" /\ (pp.ratio = 0 \/ pp.rf = 0)

\* loadData(ignoreCache) of the render with cluster cl, category cat and
\* parameters pp, up to its await. loadingNow and dataNow are the values
\* loading and data have when it runs. fetchData is handed the parameters
\* and ignoreCache in one options object.
loadData(cl, cat, pp, ignoreCache, loadingNow, dataNow) ==
  IF LoadDataSkips(cat, pp)
  THEN /\ loading' = loadingNow
       /\ sent' = {}
       /\ UNCHANGED serviceVars
  ELSE /\ latest.id < MaxFetches
       /\ loading' = TRUE
       /\ sent' = {fetchData(cl, cat, [ignoreCache |-> ignoreCache] @@ pp)}
       /\ inflight' = inflight \cup
            {[id |-> latest.id + 1, category |-> cat, cluster |-> cl.id,
              orphan |-> FALSE]}
       /\ latest' = [id |-> latest.id + 1, status |-> "pending",
                     dataAtIssue |-> dataNow,
                     overlapped |-> \E f \in inflight : ~f.orphan]

\* mutants of AutoFetchCategory: the effect excludes Performance only; the
\* effect fetches for the inventory category only
AutoFetchOutsidePerformance(cat) == cat # "Performance"

AutoFetchInventoryOnly(cat) == cat = "VM"

\* the condition of the auto-fetch effect on the category
AutoFetchCategory(cat) == cat # "Performance" /\ cat # "Resources"

\* useEffect(..., [loadData, cluster, category]) running after a render
AutoFetchEffect(cl, cat, pp, loadingNow, dataNow) ==
  IF cl.isVerified /\ AutoFetchCategory(cat)
  THEN loadData(cl, cat, pp, FALSE, loadingNow, dataNow)
  ELSE loading' = loadingNow /\ sent' = {} /\ UNCHANGED serviceVars

\* ------------------------------------------------------------------- Init

\* no request sent yet
NoFetch == [id |-> 0, status |-> "", dataAtIssue |-> <<>>, overlapped |-> FALSE]

\* the history once request f is answered
Answered(f, how) ==
  IF f.id = latest.id
  THEN [latest EXCEPT !.status = how, !.dataAtIssue = <<>>,
                      !.overlapped = FALSE]
  ELSE latest

Init ==
  /\ clusters = <<>>
  /\ selectedClusterId = "null"
  /\ verifying = FALSE
  /\ errorMsg = "null"
  /\ pendingVerify = {}
  /\ connects = 0
  /\ isModalOpen = FALSE
  /\ presets = <<>>
  /\ storage = {}
  /\ reading = {}
  /\ mountEffect = "done"
  /\ selectedPresets = {}
  /\ batch = {}
  /\ exported = {}
  /\ exporting = 0
  /\ category = "VM"
  /\ selectedFields = DEFAULT_FIELDS["VM"]
  /\ data = <<>>
  /\ loading = FALSE
  /\ startTime = InitialParams.startTime
  /\ endTime = InitialParams.endTime
  /\ interval = InitialParams.interval
  /\ aggregationType = InitialParams.aggregationType
  /\ ratio = InitialParams.ratio
  /\ rf = InitialParams.rf
  /\ cvmVcore = InitialParams.cvmVcore
  /\ cvmMemory = InitialParams.cvmMemory
  /\ sortField = "null"
  /\ sortDirection = "asc"
  /\ expandedClusters = {}
  /\ inflight = {}
  /\ sent = {}
  /\ alerted = ""
  /\ latest = NoFetch


\* ------------------------------------- DataExplorer under the App's render

\* a new DataExplorer instance starts from its useState initial values
InitialExplorerState ==
  /\ category' = "VM"
  /\ selectedFields' = DEFAULT_FIELDS["VM"]
  /\ data' = <<>>
  /\ startTime' = InitialParams.startTime
  /\ endTime' = InitialParams.endTime
  /\ interval' = InitialParams.interval
  /\ aggregationType' = InitialParams.aggregationType
  /\ ratio' = InitialParams.ratio
  /\ rf' = InitialParams.rf
  /\ cvmVcore' = InitialParams.cvmVcore
  /\ cvmMemory' = InitialParams.cvmMemory
  /\ sortField' = "null"
  /\ sortDirection' = "asc"
  /\ expandedClusters' = {}

\* App renders <DataExplorer cluster={activeCluster}/> for the first time:
\* both effects run on the initial state (category 'VM')
Mount(cl) ==
  /\ InitialExplorerState
  /\ AutoFetchEffect(cl, "VM", InitialParams, FALSE, <<>>)

\* App stops rendering DataExplorer: its state is dropped, and the responses
\* of its outstanding requests will find no component to update
Unmount ==
  /\ InitialExplorerState
  /\ loading' = FALSE
  /\ inflight' = {[f EXCEPT !.orphan = TRUE] : f \in inflight}
  /\ sent' = {}
  /\ UNCHANGED latest

\* the mounted DataExplorer is rendered with another cluster object
ClusterPropChange(cl) ==
  /\ UNCHANGED <<category, selectedFields, data, paramVars, viewVars>>
  /\ AutoFetchEffect(cl, category, Params, loading, data)

\* what the DataExplorer does when App's activeCluster goes from old to new
ExplorerOnRender(old, new) ==
  CASE new = {} /\ old # {} -> Unmount
    [] new # {} /\ old = {} -> \E cl \in new : Mount(cl)
    [] new # {} /\ old # {} /\ new # old -> \E cl \in new : ClusterPropChange(cl)
    [] OTHER -> UNCHANGED <<explorerVars, serviceVars>> /\ sent' = {}

\* ---------------------------------------------------------- ClusterManager

\* what the connect form can hold when Connect is pressed
FormInputs ==
  {[ip |-> "10.0.0.1", username |-> "admin", password |-> "pw",
    type |-> "PE", apiVersion |-> "v2.0"],
   [ip |-> "10.0.0.1", username |-> "admin", password |-> "pw",
    type |-> "PE", apiVersion |-> "v4.0"],
   [ip |-> "", username |-> "admin", password |-> "pw",
    type |-> "PE", apiVersion |-> "v2.0"]}

\* the names and the error messages the verification service answers with
ClusterNames == {"NTNX-A"}
VerifyErrors == {"Verification failed"}

\* handleAddCluster up to its await (fewer than two presets selected); the
\* Connect button that calls it is part of the modal and disabled while
\* verifying
HandleAddCluster(form) ==
  /\ NoExport
  /\ isModalOpen
  /\ ~verifying
  /\ Cardinality(selectedPresets) < 2
  /\ UNCHANGED <<isModalOpen, presetVars, batch>>
  /\ sent' = {}
  /\ UNCHANGED <<appVars, explorerVars, serviceVars>>
  /\ IF form.ip = "" \/ form.username = "" \/ form.password = ""
     THEN /\ errorMsg' = "All fields are required."
          /\ alerted' = ""
          /\ UNCHANGED <<verifying, pendingVerify, connects>>
     ELSE IF form.apiVersion = "v4.0"
     THEN /\ alerted' = "We are planning to update."
          /\ UNCHANGED <<verifying, errorMsg, pendingVerify, connects>>
     ELSE /\ connects < MaxConnects
          /\ connects' = connects + 1
          /\ verifying' = TRUE
          /\ errorMsg' = "null"
          /\ alerted' = ""
          /\ pendingVerify' = pendingVerify \cup
               {[id |-> toString(connects + 1),
                 name |-> IF form.type = "PE" THEN "Prism Element"
                          ELSE "Prism Central",
                 ip |-> form.ip, type |-> form.type,
                 apiVersion |-> form.apiVersion, isVerified |-> FALSE]}

\* verifyClusterConnection resolved: the rest of handleAddCluster's try
VerifyOk(name) ==
  /\ NoExport
  /\ isModalOpen' = FALSE
  /\ UNCHANGED <<presetVars, batch>>
  /\ \E c \in pendingVerify :
       /\ clusters' = Append(clusters, [c EXCEPT !.name = name,
                                                 !.isVerified = TRUE])
       /\ selectedClusterId' = c.id
       /\ pendingVerify' = pendingVerify \ {c}
  /\ verifying' = FALSE
  /\ alerted' = ""
  /\ UNCHANGED <<errorMsg, connects>>
  /\ ExplorerOnRender(activeCluster, activeCluster')

\* verifyClusterConnection threw: handleAddCluster's catch
VerifyFail(msg) ==
  /\ NoExport
  /\ \E c \in pendingVerify : pendingVerify' = pendingVerify \ {c}
  /\ UNCHANGED <<isModalOpen, presetVars, batch>>
  /\ errorMsg' = msg
  /\ verifying' = FALSE
  /\ alerted' = ""
  /\ sent' = {}
  /\ UNCHANGED <<appVars, connects, explorerVars, serviceVars>>

\* "Add New" in the sidebar header, or the button of the empty list
OpenModal ==
  /\ NoExport
  /\ mountEffect = "done"
  /\ ~isModalOpen
  /\ isModalOpen' = TRUE
  /\ sent' = {}
  /\ alerted' = ""
  /\ UNCHANGED <<appVars, verifying, errorMsg, pendingVerify, connects,
                 presetVars, batch, explorerVars, serviceVars>>

\* the X of the modal, or its Cancel button; neither is disabled while a
\* verification is pending
CloseModal ==
  /\ NoExport
  /\ isModalOpen
  /\ isModalOpen' = FALSE
  /\ sent' = {}
  /\ alerted' = ""
  /\ UNCHANGED <<appVars, verifying, errorMsg, pendingVerify, connects,
                 presetVars, batch, explorerVars, serviceVars>>

\* click on a cluster card: cluster.isVerified && onSelectCluster(cluster.id)
SelectCluster(i) ==
  /\ NoExport
  /\ i \in DOMAIN clusters
  /\ clusters[i].isVerified
  /\ selectedClusterId' = clusters[i].id
  /\ selectedClusterId' # selectedClusterId
  /\ UNCHANGED <<clusters, managerVars>>
  /\ alerted' = ""
  /\ ExplorerOnRender(activeCluster, activeCluster')

removeCluster(i) ==
  /\ NoExport
  /\ i \in DOMAIN clusters
  /\ clusters' = SelectSeq(clusters, LAMBDA c : c.id # clusters[i].id)
  /\ selectedClusterId' = IF selectedClusterId = clusters[i].id THEN ""
                          ELSE selectedClusterId
  /\ UNCHANGED managerVars
  /\ alerted' = ""
  /\ ExplorerOnRender(activeCluster, activeCluster')

\* Delete All, confirmed in the window.confirm dialog
removeAllClusters ==
  /\ NoExport
  /\ Len(clusters) # 0
  /\ clusters' = <<>>
  /\ selectedClusterId' = ""
  /\ UNCHANGED managerVars
  /\ alerted' = ""
  /\ ExplorerOnRender(activeCluster, activeCluster')

\* ------------------------------------------- presets and the batch connect

\* the presets the mount effect finds in localStorage: two v2.0 presets (one
\* stored without apiVersion) and a v4.0 preset
StoredPresets ==
  <<[id |-> "p1", type |-> "PE", ip |-> "10.0.0.1", apiVersion |-> "v2.0"],
    [id |-> "p2", type |-> "PE", ip |-> "10.0.0.2"],
    [id |-> "p3", type |-> "PC", ip |-> "10.0.0.3", apiVersion |-> "v4.0"]>>

\* what Math.random() returns, as the template literal prints it
RandomInputs == {"0.25", "0.75"}

\* the updater of togglePresetSelection
togglePreset(prev, id) ==
  IF id \in prev THEN prev \ {id} ELSE prev \cup {id}

\* a click on the checkbox of a preset in the modal
togglePresetSelection(id) ==
  /\ NoExport
  /\ isModalOpen
  /\ \E i \in DOMAIN presets : presets[i].id = id
  /\ selectedPresets' = togglePreset(selectedPresets, id)
  /\ sent' = {}
  /\ alerted' = ""
  /\ UNCHANGED <<appVars, verifying, errorMsg, pendingVerify, connects,
                 isModalOpen, storeVars, batch, explorerVars, serviceVars>>

\* presets.filter(p => selectedPresets.has(p.id))
selectedPresetsList == SelectSeq(presets, LAMBDA p : p.id \in selectedPresets)

\* a clusterToAdd whose id leaves out Date.now()
ClusterToAddRandomId(preset, now, random) ==
  [id |-> random,
   name |-> IF preset.type = "PE" THEN "Prism Element" ELSE "Prism Central",
   ip |-> preset.ip, type |-> preset.type,
   apiVersion |-> IF /\ "apiVersion" \in DOMAIN preset
                     /\ preset.apiVersion \notin {"", "undefined"}
                  THEN preset.apiVersion ELSE "v2.0",
   isVerified |-> FALSE]

\* the clusterToAdd the loop builds for a preset when Date.now() is now and
\* Math.random() is random
ClusterToAdd(preset, now, random) ==
  [id |-> toString(now) \o "_" \o random,
   name |-> IF preset.type = "PE" THEN "Prism Element" ELSE "Prism Central",
   ip |-> preset.ip, type |-> preset.type,
   apiVersion |-> IF /\ "apiVersion" \in DOMAIN preset
                     /\ preset.apiVersion \notin {"", "undefined"}
                  THEN preset.apiVersion ELSE "v2.0",
   isVerified |-> FALSE]

\* the connectSelectedPresets calls that have not returned
RunningBatches == {b \in batch : ~b.done}

\* connectSelectedPresets started while another connect is verifying
ConnectSelectedPresetsWhileVerifying ==
  /\ NoExport
  /\ isModalOpen
  /\ Cardinality(selectedPresets) >= 2
  /\ Len(selectedPresetsList) # 0
  /\ connects + Len(selectedPresetsList) <= MaxVerifications
  /\ verifying' = TRUE
  /\ errorMsg' = "null"
  /\ connects' = connects + 1
  /\ \E random \in RandomInputs :
       batch' = RunningBatches \cup
         {[list |-> selectedPresetsList, i |-> 1,
           current |-> ClusterToAdd(selectedPresetsList[1], connects + 1,
                                    random),
           successList |-> <<>>, failureList |-> <<>>, done |-> FALSE]}
  /\ sent' = {}
  /\ alerted' = ""
  /\ UNCHANGED <<appVars, pendingVerify, isModalOpen, presetVars,
                 explorerVars, serviceVars>>

\* Connect with two or more presets selected: handleAddCluster hands over to
\* connectSelectedPresets, which runs up to the await of its first iteration
ConnectSelectedPresets ==
  /\ NoExport
  /\ isModalOpen
  /\ ~verifying
  /\ Cardinality(selectedPresets) >= 2
  /\ Len(selectedPresetsList) # 0
  /\ connects + Len(selectedPresetsList) <= MaxVerifications
  /\ verifying' = TRUE
  /\ errorMsg' = "null"
  /\ connects' = connects + 1
  /\ \E random \in RandomInputs :
       batch' = RunningBatches \cup
         {[list |-> selectedPresetsList, i |-> 1,
           current |-> ClusterToAdd(selectedPresetsList[1], connects + 1,
                                    random),
           successList |-> <<>>, failureList |-> <<>>, done |-> FALSE]}
  /\ sent' = {}
  /\ alerted' = ""
  /\ UNCHANGED <<appVars, pendingVerify, isModalOpen, presetVars,
                 explorerVars, serviceVars>>

RECURSIVE Join(_, _)
\* Array.prototype.join
Join(strings, separator) ==
  IF Len(strings) = 0 THEN ""
  ELSE IF Len(strings) = 1 THEN strings[1]
  ELSE strings[1] \o separator \o Join(Tail(strings), separator)

\* the bullet (U+2022) that starts a line of the report, in ASCII
Bullet == "*"

\* the errorMessage of a batch with failures
BatchReport(successList, failureList) ==
  "Successfully connected: " \o toString(Len(successList))
  \o "\n\nFailed connections:\n"
  \o Join([k \in DOMAIN failureList |->
             Bullet \o " " \o failureList[k].ip \o ": " \o failureList[k].error],
          "\n")

\* a loop whose exit leaves the verifying flag set
BatchAdvanceLeavesVerifying(b, successList, failureList) ==
  IF b.i < Len(b.list)
  THEN /\ connects' = connects + 1
       /\ \E random \in RandomInputs :
            batch' = (batch \ {b}) \cup
              {[b EXCEPT !.i = b.i + 1,
                         !.current = ClusterToAdd(b.list[b.i + 1],
                                                  connects + 1, random),
                         !.successList = successList,
                         !.failureList = failureList]}
       /\ UNCHANGED <<verifying, errorMsg, selectedPresets, isModalOpen>>
  ELSE /\ batch' = (batch \ {b}) \cup
                     {[b EXCEPT !.successList = successList,
                                !.failureList = failureList,
                                !.done = TRUE]}
       /\ UNCHANGED <<verifying, connects>>
       /\ IF Len(failureList) > 0
          THEN /\ errorMsg' = BatchReport(successList, failureList)
               /\ UNCHANGED <<selectedPresets, isModalOpen>>
          ELSE /\ selectedPresets' = {}
               /\ isModalOpen' = FALSE
               /\ UNCHANGED errorMsg

\* a loop that clears the selection and closes the modal whatever the outcome
BatchAdvanceAlwaysClears(b, successList, failureList) ==
  IF b.i < Len(b.list)
  THEN /\ connects' = connects + 1
       /\ \E random \in RandomInputs :
            batch' = (batch \ {b}) \cup
              {[b EXCEPT !.i = b.i + 1,
                         !.current = ClusterToAdd(b.list[b.i + 1],
                                                  connects + 1, random),
                         !.successList = successList,
                         !.failureList = failureList]}
       /\ UNCHANGED <<verifying, errorMsg, selectedPresets, isModalOpen>>
  ELSE /\ batch' = (batch \ {b}) \cup
                     {[b EXCEPT !.successList = successList,
                                !.failureList = failureList,
                                !.done = TRUE]}
       /\ verifying' = FALSE
       /\ UNCHANGED connects
       /\ selectedPresets' = {}
       /\ isModalOpen' = FALSE
       /\ errorMsg' = IF Len(failureList) > 0
                      THEN BatchReport(successList, failureList) ELSE errorMsg

\* connectSelectedPresets from the end of a loop iteration, the outcome of
\* the candidate recorded in the lists: the next iteration up to its await,
\* or the statements after the loop
BatchAdvance(b, successList, failureList) ==
  IF b.i < Len(b.list)
  THEN /\ connects' = connects + 1
       /\ \E random \in RandomInputs :
            batch' = (batch \ {b}) \cup
              {[b EXCEPT !.i = b.i + 1,
                         !.current = ClusterToAdd(b.list[b.i + 1],
                                                  connects + 1, random),
                         !.successList = successList,
                         !.failureList = failureList]}
       /\ UNCHANGED <<verifying, errorMsg, selectedPresets, isModalOpen>>
  ELSE /\ batch' = (batch \ {b}) \cup
                     {[b EXCEPT !.successList = successList,
                                !.failureList = failureList,
                                !.done = TRUE]}
       /\ verifying' = FALSE
       /\ UNCHANGED connects
       /\ IF Len(failureList) > 0
          THEN /\ errorMsg' = BatchReport(successList, failureList)
               /\ UNCHANGED <<selectedPresets, isModalOpen>>
          ELSE /\ selectedPresets' = {}
               /\ isModalOpen' = FALSE
               /\ UNCHANGED errorMsg

\* a success that keeps the placeholder record
BatchVerifyOkKeepsPlaceholder(b, name) ==
  /\ NoExport
  /\ b \in RunningBatches
  /\ clusters' = Append(clusters, b.current)
  /\ UNCHANGED <<selectedClusterId, pendingVerify, storeVars>>
  /\ BatchAdvance(b, Append(b.successList, b.list[b.i].ip), b.failureList)
  /\ alerted' = ""
  /\ ExplorerOnRender(activeCluster, activeCluster')

\* verifyClusterConnection resolved in the loop: the rest of the try
BatchVerifyOk(b, name) ==
  /\ NoExport
  /\ b \in RunningBatches
  /\ clusters' = Append(clusters, [b.current EXCEPT !.name = name,
                                                    !.isVerified = TRUE])
  /\ UNCHANGED <<selectedClusterId, pendingVerify, storeVars>>
  /\ BatchAdvance(b, Append(b.successList, b.list[b.i].ip), b.failureList)
  /\ alerted' = ""
  /\ ExplorerOnRender(activeCluster, activeCluster')

\* e.message || 'Connection failed'
FailureError(msg) == IF msg = "" THEN "Connection failed" ELSE msg

\* a failure that ends the loop
BatchVerifyFailAborts(b, msg) ==
  /\ NoExport
  /\ b \in RunningBatches
  /\ LET failureList ==
           Append(b.failureList,
                  [ip |-> b.list[b.i].ip, error |-> FailureError(msg)])
     IN  /\ batch' = (batch \ {b}) \cup
                       {[b EXCEPT !.failureList = failureList, !.done = TRUE]}
         /\ errorMsg' = BatchReport(b.successList, failureList)
  /\ verifying' = FALSE
  /\ UNCHANGED <<connects, selectedPresets, isModalOpen>>
  /\ sent' = {}
  /\ alerted' = ""
  /\ UNCHANGED <<appVars, pendingVerify, storeVars, explorerVars,
                 serviceVars>>

\* a failure that takes back the targets the batch has added
BatchVerifyFailRollsBack(b, msg) ==
  /\ NoExport
  /\ b \in RunningBatches
  /\ BatchAdvance(b, b.successList,
                  Append(b.failureList,
                         [ip |-> b.list[b.i].ip, error |-> FailureError(msg)]))
  /\ clusters' = SelectSeq(clusters,
                           LAMBDA c : \A k \in DOMAIN b.successList :
                                        c.ip # b.successList[k])
  /\ sent' = {}
  /\ alerted' = ""
  /\ UNCHANGED <<selectedClusterId, pendingVerify, storeVars, explorerVars,
                 serviceVars>>

\* verifyClusterConnection threw in the loop: the catch
BatchVerifyFail(b, msg) ==
  /\ NoExport
  /\ b \in RunningBatches
  /\ BatchAdvance(b, b.successList,
                  Append(b.failureList,
                         [ip |-> b.list[b.i].ip, error |-> FailureError(msg)]))
  /\ sent' = {}
  /\ alerted' = ""
  /\ UNCHANGED <<appVars, pendingVerify, storeVars, explorerVars,
                 serviceVars>>


\* ------------------------------------------------------------ preset store

\* what localStorage holds when the console is opened: nothing, a text that
\* is not JSON, or a preset saved in an earlier session
StoredContents == {{}, {NotJSON}, {JSONstringify(<<StoredPresets[1]>>)}}

\* JSON.parse of a well-formed text of an array
JSONparse(document) == document.items

\* useEffect(() => {...}, []): the presets are read from localStorage; the
\* JSON.parse of the effect is not guarded, so a text that is not JSON makes
\* the effect throw, and React removes the tree
LoadPresets ==
  /\ NoExport
  /\ mountEffect = "pending"
  /\ IF storage = {}
     THEN mountEffect' = "done" /\ UNCHANGED presets
     ELSE \E document \in storage :
            IF document.wellFormed
            THEN mountEffect' = "done" /\ presets' = JSONparse(document)
            ELSE mountEffect' = "threw" /\ UNCHANGED presets
  /\ sent' = {}
  /\ alerted' = ""
  /\ UNCHANGED <<appVars, verifying, errorMsg, pendingVerify, connects,
                 isModalOpen, storage, reading, selectedPresets, batch,
                 explorerVars, serviceVars>>

\* a save that does not reach localStorage
savePresetsInMemoryOnly(updatedPresets) ==
  /\ presets' = updatedPresets
  /\ UNCHANGED storage

savePresetsToStorage(updatedPresets) ==
  /\ presets' = updatedPresets
  /\ storage' = {JSONstringify(updatedPresets)}

\* the form when Save Preset is pressed: incomplete, complete, or complete
\* after a successful connect has reset it (no apiVersion)
PresetForms ==
  {f \in FormInputs : f.apiVersion # "v4.0"}
  \cup {[ip |-> "10.0.0.4", username |-> "admin", password |-> "pw",
          type |-> "PC"]}

\* Save Preset
saveAsPreset(form) ==
  /\ NoExport
  /\ mountEffect = "done"
  /\ isModalOpen
  /\ IF form.ip = "" \/ form.username = "" \/ form.password = ""
     THEN /\ errorMsg' = "All fields are required to save a preset."
          /\ UNCHANGED <<presets, storage, connects>>
     ELSE /\ connects + Cardinality(reading) < MaxStamps
          /\ connects' = connects + 1
          /\ savePresetsToStorage(
               Append(presets,
                      [id |-> toString(connects + 1), type |-> form.type,
                       ip |-> form.ip, username |-> form.username,
                       password |-> form.password,
                       apiVersion |-> IF "apiVersion" \in DOMAIN form
                                      THEN form.apiVersion
                                      ELSE "undefined"]))
          /\ errorMsg' = "null"
  /\ sent' = {}
  /\ alerted' = ""
  /\ UNCHANGED <<appVars, verifying, pendingVerify, isModalOpen, reading,
                 mountEffect, selectedPresets, batch, explorerVars,
                 serviceVars>>

\* the X on a preset
deletePreset(id) ==
  /\ NoExport
  /\ mountEffect = "done"
  /\ isModalOpen
  /\ \E k \in DOMAIN presets : presets[k].id = id
  /\ savePresetsToStorage(SelectSeq(presets, LAMBDA p : p.id # id))
  /\ sent' = {}
  /\ alerted' = ""
  /\ UNCHANGED <<appVars, verifying, errorMsg, pendingVerify, connects,
                 isModalOpen, reading, mountEffect, selectedPresets, batch,
                 explorerVars, serviceVars>>

\* Select All, shown while not every preset is selected
selectAllPresets ==
  /\ NoExport
  /\ mountEffect = "done"
  /\ isModalOpen
  /\ Len(presets) > 0
  /\ Cardinality(selectedPresets) # Len(presets)
  /\ selectedPresets' = {presets[k].id : k \in DOMAIN presets}
  /\ sent' = {}
  /\ alerted' = ""
  /\ UNCHANGED <<appVars, verifying, errorMsg, pendingVerify, connects,
                 isModalOpen, storeVars, batch, explorerVars, serviceVars>>

\* Deselect All, shown in place of Select All
deselectAllPresets ==
  /\ NoExport
  /\ mountEffect = "done"
  /\ isModalOpen
  /\ Len(presets) > 0
  /\ Cardinality(selectedPresets) = Len(presets)
  /\ selectedPresets' = {}
  /\ sent' = {}
  /\ alerted' = ""
  /\ UNCHANGED <<appVars, verifying, errorMsg, pendingVerify, connects,
                 isModalOpen, storeVars, batch, explorerVars, serviceVars>>

\* Delete Selected, shown while the selection is not empty
deleteSelectedPresets ==
  /\ NoExport
  /\ mountEffect = "done"
  /\ isModalOpen
  /\ Len(presets) > 0
  /\ Cardinality(selectedPresets) > 0
  /\ savePresetsToStorage(
       SelectSeq(presets, LAMBDA p : p.id \notin selectedPresets))
  /\ selectedPresets' = {}
  /\ sent' = {}
  /\ alerted' = ""
  /\ UNCHANGED <<appVars, verifying, errorMsg, pendingVerify, connects,
                 isModalOpen, reading, mountEffect, batch, explorerVars,
                 serviceVars>>

\* The files the user can pick for the import: a text that is not JSON, an
\* object, an array without an acceptable entry, the array of two entries
\* of which the second lacks ip and password, an array with a PC/v4.0 entry,
\* a number and an entry with padded values and an unknown type, and an
\* array with a null after an acceptable entry.
ImportFiles ==
  {NotJSON,
   [wellFormed |-> TRUE, isArray |-> FALSE],
   [wellFormed |-> TRUE, isArray |-> TRUE,
    items |-> <<[username |-> "x"], [json |-> "number"]>>],
   [wellFormed |-> TRUE, isArray |-> TRUE,
    items |-> <<[ip |-> "10.0.0.1", username |-> "a", password |-> "b"],
                [username |-> "x"]>>],
   [wellFormed |-> TRUE, isArray |-> TRUE,
    items |-> <<[ip |-> "10.0.0.7", username |-> "a", password |-> "b",
                 type |-> "PC", apiVersion |-> "v4.0"],
                [json |-> "number"],
                [ip |-> " 10.0.0.8 ", username |-> "a", password |-> "",
                 type |-> "PE"],
                [ip |-> " 10.0.0.8 ", username |-> "a", password |-> "b",
                 type |-> "XX"]>>],
   [wellFormed |-> TRUE, isArray |-> TRUE,
    items |-> <<[ip |-> "10.0.0.1", username |-> "a", password |-> "b"],
                [json |-> "null"]>>]}

\* String.prototype.trim on the strings the files hold
trim(string) == IF string = " 10.0.0.8 " THEN "10.0.0.8" ELSE string

\* item.ip && item.username && item.password; a member that is missing is
\* undefined, and undefined and '' are falsy
Acceptable(item) ==
  /\ "ip" \in DOMAIN item /\ item.ip # ""
  /\ "username" \in DOMAIN item /\ item.username # ""
  /\ "password" \in DOMAIN item /\ item.password # ""

\* the preset pushed for item i (counted from 0) when Date.now() is now
ImportedPreset(item, i, now) ==
  [id |-> toString(now) \o "_" \o toString(i),
   type |-> IF "type" \in DOMAIN item /\ item.type = "PC" THEN "PC" ELSE "PE",
   ip |-> trim(item.ip),
   username |-> trim(item.username),
   password |-> trim(item.password),
   apiVersion |-> IF "apiVersion" \in DOMAIN item /\ item.apiVersion = "v4.0"
                  THEN "v4.0" ELSE "v2.0"]

\* newPresets after the forEach
newPresets(items, now) ==
  LET accepted == SelectSeq([k \in DOMAIN items |-> k],
                            LAMBDA k : Acceptable(items[k]))
  IN  [j \in DOMAIN accepted |->
         ImportedPreset(items[accepted[j]], accepted[j] - 1, now)]

\* reading a member of null throws a TypeError inside the forEach
ForEachThrows(items) ==
  \E k \in DOMAIN items :
    "json" \in DOMAIN items[k] /\ items[k].json = "null"

\* an import that empties the store when it rejects the file
ImportOutcomeWipes(file, closurePresets, now) ==
  IF ~file.wellFormed
  THEN [save |-> TRUE, updatedPresets |-> <<>>,
        errorMsg |-> "Failed to parse the JSON file. Please check the format."]
  ELSE IF ~file.isArray
  THEN [save |-> TRUE, updatedPresets |-> <<>>,
        errorMsg |-> "Invalid JSON format. Expected an array of objects."]
  ELSE IF ForEachThrows(file.items)
  THEN [save |-> TRUE, updatedPresets |-> <<>>,
        errorMsg |-> "Failed to parse the JSON file. Please check the format."]
  ELSE IF Len(newPresets(file.items, now)) > 0
  THEN [save |-> TRUE,
        updatedPresets |-> closurePresets \o newPresets(file.items, now),
        errorMsg |-> "null"]
  ELSE [save |-> TRUE, updatedPresets |-> <<>>,
        errorMsg |-> "No valid data found in the template."]

\* what reader.onload does with the text of the file: whether it calls
\* savePresetsToStorage, with which sequence, and the error message it sets;
\* closurePresets is the presets of the render whose handleFileUpload
\* started the read
ImportOutcome(file, closurePresets, now) ==
  IF ~file.wellFormed
  THEN [save |-> FALSE,
        errorMsg |-> "Failed to parse the JSON file. Please check the format."]
  ELSE IF ~file.isArray
  THEN [save |-> FALSE,
        errorMsg |-> "Invalid JSON format. Expected an array of objects."]
  ELSE IF ForEachThrows(file.items)
  THEN [save |-> FALSE,
        errorMsg |-> "Failed to parse the JSON file. Please check the format."]
  ELSE IF Len(newPresets(file.items, now)) > 0
  THEN [save |-> TRUE,
        updatedPresets |-> closurePresets \o newPresets(file.items, now),
        errorMsg |-> "null"]
  ELSE [save |-> FALSE,
        errorMsg |-> "No valid data found in the template."]

\* a file is picked in the import dialog: handleFileUpload starts the read
handleFileUpload(file) ==
  /\ NoExport
  /\ mountEffect = "done"
  /\ isModalOpen
  /\ Cardinality(reading) < MaxReads
  /\ connects + Cardinality(reading) < MaxStamps
  /\ reading' = reading \cup {[file |-> file, presets |-> presets]}
  /\ sent' = {}
  /\ alerted' = ""
  /\ UNCHANGED <<appVars, verifying, errorMsg, pendingVerify, connects,
                 isModalOpen, presets, storage, mountEffect, selectedPresets,
                 batch, explorerVars, serviceVars>>

\* the read is complete: reader.onload
FileLoaded(r) ==
  /\ NoExport
  /\ r \in reading
  /\ reading' = reading \ {r}
  /\ LET outcome == ImportOutcome(r.file, r.presets, connects + 1)
     IN  /\ errorMsg' = outcome.errorMsg
         /\ IF outcome.save
            THEN /\ savePresetsToStorage(outcome.updatedPresets)
                 /\ connects' = connects + 1
            ELSE UNCHANGED <<presets, storage, connects>>
  /\ sent' = {}
  /\ alerted' = ""
  /\ UNCHANGED <<appVars, verifying, pendingVerify, isModalOpen, mountEffect,
                 selectedPresets, batch, explorerVars, serviceVars>>


\* ------------------------------------------------------------ DataExplorer

\* values the user can give the parameter inputs
StartTimeInputs == {"", DefaultStartTime}     \* datetime-local, "" when cleared
EndTimeInputs == {"", DefaultEndTime}
IntervalInputs == {0, 60}                     \* Number(e.target.value)
AggregationInputs == {"max", "average"}       \* the two <option>s
RatioInputs == {1, 3}                         \* among the <option>s 1..10
RfInputs == {2, 3}                            \* the two <option>s
CvmInputs == {-1, 0}                          \* Number(e.target.value)

\* mutant of SetCategory: the reset effect leaves the selected columns alone
SetCategoryKeepsColumns(c) ==
  /\ NoExport
  /\ c # category
  /\ \E cl \in activeCluster :
       /\ category' = c
       /\ data' = <<>>
       /\ IF c = "Performance"
          THEN /\ startTime' = DefaultStartTime
               /\ endTime' = DefaultEndTime
               /\ interval' = 30
          ELSE UNCHANGED <<startTime, endTime, interval>>
       /\ UNCHANGED <<aggregationType, ratio, rf, cvmVcore, cvmMemory>>
       /\ UNCHANGED <<selectedFields, viewVars>>
       /\ AutoFetchEffect(cl, c, Params', loading, <<>>)
  /\ alerted' = ""
  /\ UNCHANGED <<appVars, managerVars>>

\* category <select> onChange, with the render's effects: the reset effect
\* on [category], then the auto-fetch effect
SetCategory(c) ==
  /\ NoExport
  /\ c # category
  /\ \E cl \in activeCluster :
       /\ category' = c
       /\ selectedFields' = DEFAULT_FIELDS[c]
       /\ data' = <<>>
       /\ IF c = "Performance"
          THEN /\ startTime' = DefaultStartTime
               /\ endTime' = DefaultEndTime
               /\ interval' = 30
          ELSE UNCHANGED <<startTime, endTime, interval>>
       /\ UNCHANGED <<aggregationType, ratio, rf, cvmVcore, cvmMemory>>
       /\ UNCHANGED viewVars
       /\ AutoFetchEffect(cl, c, Params', loading, <<>>)
  /\ alerted' = ""
  /\ UNCHANGED <<appVars, managerVars>>

\* the numeric and choice parameters that do not hold their initial value
Edited(pp) ==
  {k \in DOMAIN pp \ {"startTime", "endTime"} : pp[k] # InitialParams[k]}

\* a parameter input's onChange (the input is rendered under category cat
\* only): the state changes, loadData is rebuilt and the auto-fetch effect runs
EditParameter(cat) ==
  /\ NoExport
  /\ category = cat
  /\ Cardinality(Edited(Params')) <= MaxEdited
  /\ UNCHANGED <<category, selectedFields, data, viewVars>>
  /\ \E cl \in activeCluster :
       AutoFetchEffect(cl, category, Params', loading, data)
  /\ alerted' = ""
  /\ UNCHANGED <<appVars, managerVars>>

SetStartTime(v) ==
  /\ v # startTime
  /\ startTime' = v
  /\ UNCHANGED <<endTime, interval, aggregationType, ratio, rf, cvmVcore,
                 cvmMemory>>
  /\ EditParameter("Performance")

SetEndTime(v) ==
  /\ v # endTime
  /\ endTime' = v
  /\ UNCHANGED <<startTime, interval, aggregationType, ratio, rf, cvmVcore,
                 cvmMemory>>
  /\ EditParameter("Performance")

SetInterval(v) ==
  /\ v # interval
  /\ interval' = v
  /\ UNCHANGED <<startTime, endTime, aggregationType, ratio, rf, cvmVcore,
                 cvmMemory>>
  /\ EditParameter("Performance")

SetAggregationType(v) ==
  /\ v # aggregationType
  /\ aggregationType' = v
  /\ UNCHANGED <<startTime, endTime, interval, ratio, rf, cvmVcore,
                 cvmMemory>>
  /\ EditParameter("Performance")

SetRatio(v) ==
  /\ v # ratio
  /\ ratio' = v
  /\ UNCHANGED <<startTime, endTime, interval, aggregationType, rf, cvmVcore,
                 cvmMemory>>
  /\ EditParameter("Resources")

SetRf(v) ==
  /\ v # rf
  /\ rf' = v
  /\ UNCHANGED <<startTime, endTime, interval, aggregationType, ratio,
                 cvmVcore, cvmMemory>>
  /\ EditParameter("Resources")

SetCvmVcore(v) ==
  /\ v # cvmVcore
  /\ cvmVcore' = v
  /\ UNCHANGED <<startTime, endTime, interval, aggregationType, ratio, rf,
                 cvmMemory>>
  /\ EditParameter("Resources")

SetCvmMemory(v) ==
  /\ v # cvmMemory
  /\ cvmMemory' = v
  /\ UNCHANGED <<startTime, endTime, interval, aggregationType, ratio, rf,
                 cvmVcore>>
  /\ EditParameter("Resources")

\* the API Recall button: onClick={() => loadData(true)}, never disabled
ApiRecall ==
  /\ NoExport
  /\ \E cl \in activeCluster :
       loadData(cl, category, Params, TRUE, loading, data)
  /\ alerted' = ""
  /\ UNCHANGED <<category, selectedFields, data, paramVars, viewVars, appVars,
                 managerVars>>

\* the disabled attribute of the two Apply & Fetch buttons
ApplyFetchDisabled ==
  IF category = "Performance"
  THEN loading \/ startTime = "" \/ endTime = ""
  ELSE loading

\* an Apply & Fetch button: onClick={loadData}, so loadData receives the
\* click event, a truthy object, as its ignoreCache argument
ApplyFetch ==
  /\ NoExport
  /\ category \in {"Performance", "Resources"}
  /\ ~ApplyFetchDisabled
  /\ \E cl \in activeCluster :
       loadData(cl, category, Params, TRUE, loading, data)
  /\ alerted' = ""
  /\ UNCHANGED <<category, selectedFields, data, paramVars, viewVars, appVars,
                 managerVars>>

\* ------------------------------------------- loadData after its await

\* ------------------------------------------------------- column selection

Range(seq) == {seq[i] : i \in DOMAIN seq}

\* availableFields = FIELD_DEFINITIONS[category], as the set of keys
AvailableKeys(cat) == Range(FIELD_DEFINITIONS[cat])

\* prev.filter(f => f !== key)
Without(prev, key) == SelectSeq(prev, LAMBDA f : f # key)

\* the position of a key in a sequence of distinct keys, 0 when absent
IndexOf(seq, key) ==
  IF key \in Range(seq) THEN CHOOSE i \in DOMAIN seq : seq[i] = key ELSE 0

\* the updater of toggleField:
\* prev.includes(key) ? prev.filter(f => f !== key) : [...prev, key]
toggleField(prev, key) ==
  IF key \in Range(prev) THEN Without(prev, key) ELSE Append(prev, key)

\* the keys of the column menu that get clicked
ToggleKeys(cat) ==
  {FIELD_DEFINITIONS[cat][i] :
     i \in 1..MaxToggleKeys \cap DOMAIN FIELD_DEFINITIONS[cat]}

\* a click on an entry of the column menu, which lists availableFields;
\* selectedFields is no dependency of loadData, so no effect runs
ToggleField(key) ==
  /\ NoExport
  /\ activeCluster # {}
  /\ key \in AvailableKeys(category)
  /\ selectedFields' = toggleField(selectedFields, key)
  /\ sent' = {}
  /\ alerted' = ""
  /\ UNCHANGED <<category, data, loading, paramVars, viewVars, appVars,
                 managerVars, serviceVars>>

\* ------------------------------------------------------------ result table

\* row[field] != null: a field that is missing or null fails it alike, and
\* a row is modelled without the fields that are missing or null
Has(row, field) == field \in DOMAIN row

Max(S) == CHOOSE x \in S : \A y \in S : y <= x

Sign(n) == IF n < 0 THEN -1 ELSE IF n > 0 THEN 1 ELSE 0

\* the columns for which the query service returns numbers; the values of
\* the other columns are strings
NumberColumns == {"iops", "latency", "bandwidth", "cpuUsage", "memoryUsage"}

\* String.prototype.toLowerCase on the names in use
toLowerCase(str) ==
  CASE str = "C1" -> "c1"
    [] str = "C2" -> "c2"
    [] str = "H1" -> "h1"
    [] OTHER -> str

\* the collation order of the lower-cased names in use
Collation == <<"c1", "c2", "h1", "h2">>

\* String.prototype.localeCompare
localeCompare(a, b) == Sign(IndexOf(Collation, a) - IndexOf(Collation, b))

\* mutant of comparefn: a row lacking the field follows the direction
comparefnNullByDirection(a, b, field, dir) ==
  IF ~Has(a, field) THEN (IF dir = "asc" THEN 1 ELSE -1)
  ELSE IF ~Has(b, field) THEN (IF dir = "asc" THEN -1 ELSE 1)
  ELSE IF field \in NumberColumns
  THEN IF dir = "asc" THEN a[field] - b[field] ELSE b[field] - a[field]
  ELSE IF dir = "asc"
  THEN localeCompare(toLowerCase(a[field]), toLowerCase(b[field]))
  ELSE localeCompare(toLowerCase(b[field]), toLowerCase(a[field]))

\* the comparator given to sort in sortedData
comparefn(a, b, field, dir) ==
  IF ~Has(a, field) THEN 1
  ELSE IF ~Has(b, field) THEN -1
  ELSE IF field \in NumberColumns
  THEN IF dir = "asc" THEN a[field] - b[field] ELSE b[field] - a[field]
  ELSE IF dir = "asc"
  THEN localeCompare(toLowerCase(a[field]), toLowerCase(b[field]))
  ELSE localeCompare(toLowerCase(b[field]), toLowerCase(a[field]))

\* Array.prototype.sort is stable, and its result is implementation-defined
\* where the comparator is not consistent; comparefn is not, for two rows
\* that both lack the field (it answers 1 both ways round). The engines
\* differ in how they ask: whether the later element goes before the
\* earlier one (comparefn(later, earlier) < 0), or whether the earlier one
\* goes after the later one (comparefn(earlier, later) > 0).
Engines == {"later before earlier", "earlier after later"}

\* does the engine move row number item in front of row number e, which
\* precedes it
GoesBefore(engine, rows, item, e, field, dir) ==
  IF engine = "later before earlier"
  THEN comparefn(rows[item], rows[e], field, dir) < 0
  ELSE comparefn(rows[e], rows[item], field, dir) > 0

\* a stable insertion of row number item into the sorted row numbers
InsertSorted(engine, rows, sorted, item, field, dir) ==
  LET stay == {k \in DOMAIN sorted :
                 ~GoesBefore(engine, rows, item, sorted[k], field, dir)}
      pos == IF stay = {} THEN 0 ELSE Max(stay)
  IN  SubSeq(sorted, 1, pos) \o <<item>> \o SubSeq(sorted, pos + 1, Len(sorted))

RECURSIVE SortedOrder(_, _, _, _, _)
\* the row numbers of the first n rows in sorted order
SortedOrder(engine, rows, n, field, dir) ==
  IF n = 0 THEN <<>>
  ELSE InsertSorted(engine, rows, SortedOrder(engine, rows, n - 1, field, dir),
                    n, field, dir)

\* the order in which sortedData lists the rows of data, as row numbers
sortedOrder(engine) ==
  IF sortField = "null" THEN [k \in DOMAIN data |-> k]
  ELSE SortedOrder(engine, data, Len(data), sortField, sortDirection)

\* sortedData: data itself without a sort field, else a sorted copy
sortedData(engine) == [k \in DOMAIN data |-> data[sortedOrder(engine)[k]]]

isClusterRow(row, cat) ==
  cat = "Performance" /\ Has(row, "entityType") /\ row.entityType = "cluster"

isHostRow(row, cat) ==
  cat = "Performance" /\ Has(row, "entityType") /\ row.entityType = "host"

\* the row callback returns null: isHostRow && parentCluster &&
\* !expandedClusters.has(parentCluster)
Hidden(row, cat, expanded) ==
  /\ isHostRow(row, cat)
  /\ Has(row, "parentCluster") /\ row.parentCluster # ""
  /\ row.parentCluster \notin expanded

\* the rows of the table body, in order
RenderedRows(rows, cat, expanded) ==
  SelectSeq(rows, LAMBDA row : ~Hidden(row, cat, expanded))

\* the header cells that get clicked
SortKeys == {"entityName", "iops"}

\* mutant of handleSort: a click on another field keeps the direction
handleSortKeepsDirection(field) ==
  /\ NoExport
  /\ activeCluster # {}
  /\ category # "Resources"
  /\ field \in Range(selectedFields)
  /\ IF sortField = field
     THEN /\ sortDirection' = (IF sortDirection = "asc" THEN "desc" ELSE "asc")
          /\ UNCHANGED sortField
     ELSE /\ sortField' = field
          /\ UNCHANGED sortDirection
  /\ sent' = {}
  /\ alerted' = ""
  /\ UNCHANGED <<category, selectedFields, data, loading, paramVars,
                 expandedClusters, appVars, managerVars, serviceVars>>

\* a click on a header cell of the table (one cell per selected field; the
\* table is rendered for every category but Resources)
handleSort(field) ==
  /\ NoExport
  /\ activeCluster # {}
  /\ category # "Resources"
  /\ field \in Range(selectedFields)
  /\ IF sortField = field
     THEN /\ sortDirection' = (IF sortDirection = "asc" THEN "desc" ELSE "asc")
          /\ UNCHANGED sortField
     ELSE /\ sortField' = field
          /\ sortDirection' = "asc"
  /\ sent' = {}
  /\ alerted' = ""
  /\ UNCHANGED <<category, selectedFields, data, loading, paramVars,
                 expandedClusters, appVars, managerVars, serviceVars>>

\* mutant of toggleExpansion: an expanded cluster stays expanded
toggleExpansionOnlyAdds(prev, clusterName) == prev \cup {clusterName}

\* the updater of toggleClusterExpansion
toggleExpansion(prev, clusterName) ==
  IF clusterName \in prev THEN prev \ {clusterName} ELSE prev \cup {clusterName}

\* row.entityName || ''
EntityName(row) == IF Has(row, "entityName") THEN row.entityName ELSE ""

\* a click on the button in the first cell of a cluster row
toggleClusterExpansion(clusterName) ==
  /\ NoExport
  /\ activeCluster # {}
  /\ ~loading
  /\ selectedFields # <<>>
  /\ \E row \in Range(data) :
       isClusterRow(row, category) /\ clusterName = EntityName(row)
  /\ expandedClusters' = toggleExpansion(expandedClusters, clusterName)
  /\ sent' = {}
  /\ alerted' = ""
  /\ UNCHANGED <<category, selectedFields, data, loading, paramVars, sortField,
                 sortDirection, appVars, managerVars, serviceVars>>

\* ------------------------------------------------------------ exportToXLSX

\* the labels of FIELD_DEFINITIONS, in the order of its keys
FIELD_LABELS ==
  [VM |-> <<"Cluster Name", "VM Name", "UUID", "Power State", "MAC Address",
            "IP Addresses", "vDisk", "vCPUs", "Memory (MB)">>,
   Hardware |-> <<"Host Name", "Serial", "Model", "CPU Model", "Cores",
                  "Memory (GB)", "Block Serial", "Disk", "Disk Model">>,
   Performance |-> <<"Entity Name", "IOPS", "Latency (ms)", "Bandwidth",
                     "CPU Usage (%)", "Memory Usage (%)">>,
   Resources |-> <<"Host name", "VM Count", "NUMA over", "Metric 1",
                   "Metric 2", "Metric 3", "Metric 4", "Result">>]

\* new Date().toISOString().split('T')[0] on the day of the export
ExportDate == "2026-01-01"

cpuFields ==
  <<"hostName", "vmCount", "numaOver", "pCore", "useVCore",
    "recommendVcoreRatio", "currentVcoreRatio", "result">>

cpuFieldLabels ==
  [hostName |-> "Host name", vmCount |-> "VM Count", numaOver |-> "NUMA over",
   pCore |-> "pCore", useVCore |-> "Use vCore",
   recommendVcoreRatio |-> "Recommend vcore Ratio",
   currentVcoreRatio |-> "Current vcore Ratio", result |-> "Result"]

memoryFields ==
  <<"hostName", "vmCount", "numaOver", "memoryGiB", "useMemoryGiB",
    "recommendUse", "availableMemory", "result">>

memoryFieldLabels ==
  [hostName |-> "Host name", vmCount |-> "VM Count", numaOver |-> "NUMA over",
   memoryGiB |-> "Memory(GiB)", useMemoryGiB |-> "Use Memory(GiB) =(A)",
   recommendUse |-> "Recommend Use =(B)",
   availableMemory |-> "Available memory (B-A)", result |-> "Result"]

\* rows.filter(row => row.table === table)
TableRows(rows, table) ==
  SelectSeq(rows, LAMBDA row : Has(row, "table") /\ row.table = table)

\* data[0]?.clusterName || cluster.name || cluster.ip
actualClusterName(rows, cl) ==
  IF Len(rows) > 0 /\ Has(rows[1], "clusterName") /\ rows[1].clusterName # ""
  THEN rows[1].clusterName
  ELSE IF cl.name # "" THEN cl.name ELSE cl.ip

\* the fieldLabels of the generic branch: the label FIELD_DEFINITIONS gives
\* the key under the category, or the key itself
fieldLabels(cat, fields) ==
  [field \in Range(fields) |->
     IF field \in Range(FIELD_DEFINITIONS[cat])
     THEN FIELD_LABELS[cat][IndexOf(FIELD_DEFINITIONS[cat], field)]
     ELSE field]

\* a Resources export that takes its CPU columns from the column menu
ExportRequestSelectedColumns(cl, cat, fields, rows) ==
  LET filename == actualClusterName(rows, cl) \o "_" \o cat \o "_" \o ExportDate
      cpuData == TableRows(rows, "CPU")
      memoryData == TableRows(rows, "Memory")
  IN  IF cat = "Resources"
      THEN [data |-> cpuData \o memoryData,
            fields |-> IF Len(cpuData) > 0 THEN fields ELSE memoryFields,
            fieldLabels |-> IF Len(cpuData) > 0 THEN fieldLabels(cat, fields)
                            ELSE memoryFieldLabels,
            filename |-> filename,
            isResources |-> TRUE,
            cpuData |-> cpuData,
            memoryData |-> memoryData,
            cpuFields |-> fields,
            memoryFields |-> memoryFields,
            cpuFieldLabels |-> fieldLabels(cat, fields),
            memoryFieldLabels |-> memoryFieldLabels]
      ELSE [data |-> rows, fields |-> fields,
            fieldLabels |-> fieldLabels(cat, fields), filename |-> filename]

\* the body exportToXLSX posts to /api/export-xlsx
ExportRequest(cl, cat, fields, rows) ==
  LET filename == actualClusterName(rows, cl) \o "_" \o cat \o "_" \o ExportDate
      cpuData == TableRows(rows, "CPU")
      memoryData == TableRows(rows, "Memory")
  IN  IF cat = "Resources"
      THEN [data |-> cpuData \o memoryData,
            fields |-> IF Len(cpuData) > 0 THEN cpuFields ELSE memoryFields,
            fieldLabels |-> IF Len(cpuData) > 0 THEN cpuFieldLabels
                            ELSE memoryFieldLabels,
            filename |-> filename,
            isResources |-> TRUE,
            cpuData |-> cpuData,
            memoryData |-> memoryData,
            cpuFields |-> cpuFields,
            memoryFields |-> memoryFields,
            cpuFieldLabels |-> cpuFieldLabels,
            memoryFieldLabels |-> memoryFieldLabels]
      ELSE [data |-> rows, fields |-> fields,
            fieldLabels |-> fieldLabels(cat, fields), filename |-> filename]

\* the Export button: disabled={loading || data.length === 0}
ExportDisabled == loading \/ Len(data) = 0

\* a click on Export: exportToXLSX up to its await
exportToXLSX ==
  /\ ~ExportDisabled
  /\ Len(data) # 0
  /\ exporting < MaxExports
  /\ \E cl \in activeCluster :
       exported' = {ExportRequest(cl, category, selectedFields, data)}
  /\ exporting' = exporting + 1
  /\ sent' = {}
  /\ alerted' = ""
  /\ UNCHANGED <<appVars, managerVars, explorerVars, serviceVars>>

\* the export service answered with the workbook: it is downloaded
ExportOk ==
  /\ exporting > 0
  /\ exporting' = exporting - 1
  /\ exported' = {}
  /\ sent' = {}
  /\ alerted' = ""
  /\ UNCHANGED <<appVars, managerVars, explorerVars, serviceVars>>

\* the request failed or was answered with an error status: the catch
ExportFail ==
  /\ exporting > 0
  /\ exporting' = exporting - 1
  /\ exported' = {}
  /\ sent' = {}
  /\ alerted' = "Failed to export XLSX"
  /\ UNCHANGED <<appVars, managerVars, explorerVars, serviceVars>>

\* fetchData resolved: setData(result), then finally setLoading(false)
FetchOk(f) ==
  /\ NoExport
  /\ f \in inflight
  /\ inflight' = inflight \ {f}
  /\ latest' = Answered(f, "ok")
  /\ IF f.orphan
     THEN UNCHANGED <<data, loading>>
     ELSE data' = Rows(f) /\ loading' = FALSE
  /\ alerted' = ""
  /\ sent' = {}
  /\ UNCHANGED <<category, selectedFields, paramVars, viewVars, appVars,
               managerVars>>

\* mutant of FetchFail: the catch block also drops the rows on display
FetchFailDropsData(f) ==
  /\ NoExport
  /\ f \in inflight
  /\ inflight' = inflight \ {f}
  /\ latest' = Answered(f, "failed")
  /\ alerted' = "Failed to fetch data."
  /\ IF f.orphan
     THEN UNCHANGED <<loading, data>>
     ELSE loading' = FALSE /\ data' = <<>>
  /\ sent' = {}
  /\ UNCHANGED <<category, selectedFields, paramVars, viewVars, appVars,
               managerVars>>

\* fetchData threw: catch { alert(...) }, then finally setLoading(false)
FetchFail(f) ==
  /\ NoExport
  /\ f \in inflight
  /\ inflight' = inflight \ {f}
  /\ latest' = Answered(f, "failed")
  /\ alerted' = "Failed to fetch data."
  /\ IF f.orphan
     THEN UNCHANGED loading
     ELSE loading' = FALSE
  /\ sent' = {}
  /\ UNCHANGED <<category, selectedFields, data, paramVars, viewVars, appVars,
                 managerVars>>

\* ------------------------------------------------------------------- Spec

Next ==
  \/ OpenModal
  \/ CloseModal
  \/ \E form \in FormInputs : HandleAddCluster(form)
  \/ \E name \in ClusterNames : VerifyOk(name)
  \/ \E msg \in VerifyErrors : VerifyFail(msg)
  \/ \E i \in DOMAIN clusters : SelectCluster(i)
  \/ \E i \in DOMAIN clusters : removeCluster(i)
  \/ removeAllClusters
  \/ \E c \in CategorySet : SetCategory(c)
  \/ \E v \in StartTimeInputs : SetStartTime(v)
  \/ \E v \in EndTimeInputs : SetEndTime(v)
  \/ \E v \in IntervalInputs : SetInterval(v)
  \/ \E v \in AggregationInputs : SetAggregationType(v)
  \/ \E v \in RatioInputs : SetRatio(v)
  \/ \E v \in RfInputs : SetRf(v)
  \/ \E v \in CvmInputs : SetCvmVcore(v)
  \/ \E v \in CvmInputs : SetCvmMemory(v)
  \/ ApiRecall
  \/ ApplyFetch
  \/ \E f \in inflight : FetchOk(f)
  \/ \E f \in inflight : FetchFail(f)
  \/ exportToXLSX
  \/ ExportOk
  \/ ExportFail

Spec == Init /\ [][Next]_vars


\* the connect form filled with a complete v2.0 candidate
ValidForms ==
  {f \in FormInputs : f.ip # "" /\ f.username # "" /\ f.password # ""
                      /\ f.apiVersion # "v4.0"}

\* The fetch path alone: targets come and go, the category changes, fetches
\* are triggered and answered; the parameters keep the values the category
\* switch gives them.
NextRace ==
  \/ OpenModal
  \/ CloseModal
  \/ \E form \in ValidForms : HandleAddCluster(form)
  \/ \E name \in ClusterNames : VerifyOk(name)
  \/ \E msg \in VerifyErrors : VerifyFail(msg)
  \/ \E i \in DOMAIN clusters : SelectCluster(i)
  \/ \E i \in DOMAIN clusters : removeCluster(i)
  \/ removeAllClusters
  \/ \E c \in CategorySet : SetCategory(c)
  \/ ApiRecall
  \/ ApplyFetch
  \/ \E f \in inflight : FetchOk(f)
  \/ \E f \in inflight : FetchFail(f)

SpecRace == Init /\ [][NextRace]_vars

\* two targets as a batch connect leaves them: verified, in the connection
\* set, none selected
ConnectedClusters ==
  <<[id |-> "1", name |-> "NTNX-A", ip |-> "10.0.0.1", type |-> "PE",
     apiVersion |-> "v2.0", isVerified |-> TRUE],
    [id |-> "2", name |-> "NTNX-B", ip |-> "10.0.0.2", type |-> "PE",
     apiVersion |-> "v2.0", isVerified |-> TRUE]>>

InitTrigger ==
  /\ clusters = ConnectedClusters
  /\ selectedClusterId = "null"
  /\ verifying = FALSE
  /\ errorMsg = "null"
  /\ pendingVerify = {}
  /\ connects = Len(ConnectedClusters)
  /\ isModalOpen = FALSE
  /\ presets = <<>>
  /\ storage = {}
  /\ reading = {}
  /\ mountEffect = "done"
  /\ selectedPresets = {}
  /\ batch = {}
  /\ exported = {}
  /\ exporting = 0
  /\ category = "VM"
  /\ selectedFields = DEFAULT_FIELDS["VM"]
  /\ data = <<>>
  /\ loading = FALSE
  /\ startTime = InitialParams.startTime
  /\ endTime = InitialParams.endTime
  /\ interval = InitialParams.interval
  /\ aggregationType = InitialParams.aggregationType
  /\ ratio = InitialParams.ratio
  /\ rf = InitialParams.rf
  /\ cvmVcore = InitialParams.cvmVcore
  /\ cvmMemory = InitialParams.cvmMemory
  /\ sortField = "null"
  /\ sortDirection = "asc"
  /\ expandedClusters = {}
  /\ inflight = {}
  /\ sent = {}
  /\ alerted = ""
  /\ latest = NoFetch

\* What triggers a fetch: with the targets connected, the user selects targets, changes the category, edits the parameters and presses
\* the fetch buttons, while the query service answers.
NextTrigger ==
  \/ \E i \in DOMAIN clusters : SelectCluster(i)
  \/ \E c \in CategorySet : SetCategory(c)
  \/ \E v \in StartTimeInputs : SetStartTime(v)
  \/ \E v \in EndTimeInputs : SetEndTime(v)
  \/ \E v \in IntervalInputs : SetInterval(v)
  \/ \E v \in AggregationInputs : SetAggregationType(v)
  \/ \E v \in RatioInputs : SetRatio(v)
  \/ \E v \in RfInputs : SetRf(v)
  \/ \E v \in CvmInputs : SetCvmVcore(v)
  \/ \E v \in CvmInputs : SetCvmMemory(v)
  \/ ApiRecall
  \/ ApplyFetch
  \/ \E f \in inflight : FetchOk(f)
  \/ \E f \in inflight : FetchFail(f)

SpecTrigger == InitTrigger /\ [][NextTrigger]_vars

\* Column selection: with the targets connected, the user selects a target,
\* changes the category, toggles columns and recalls the data, while the
\* query service answers.
NextColumns ==
  \/ \E i \in DOMAIN clusters : SelectCluster(i)
  \/ \E c \in CategorySet : SetCategory(c)
  \/ \E key \in ToggleKeys(category) : ToggleField(key)
  \/ ApiRecall
  \/ \E f \in inflight : FetchOk(f)
  \/ \E f \in inflight : FetchFail(f)

SpecColumns == InitTrigger /\ [][NextColumns]_vars

\* The rows a Performance result set is drawn from: two clusters with equal
\* iops, hosts of C1 with and without iops and with names equal up to case,
\* a host without parentCluster, and a row without hierarchy fields.
RowInputs ==
  {[entityType |-> "cluster", entityName |-> "C1", iops |-> 2],
   [entityType |-> "cluster", entityName |-> "C2", iops |-> 2],
   [entityType |-> "host", entityName |-> "h1", parentCluster |-> "C1",
    iops |-> 1],
   [entityType |-> "host", entityName |-> "H1", parentCluster |-> "C1"],
   [entityType |-> "host", entityName |-> "h2"],
   [iops |-> 3]}

\* the result sets: up to MaxRows different rows in any order
ResultSets ==
  UNION {{rows \in [1..n -> RowInputs] :
            \A i, j \in 1..n : i # j => rows[i] # rows[j]} : n \in 0..MaxRows}

\* the state after the first target was selected, the category was switched
\* to Performance, Apply & Fetch was pressed and the rows arrived
InitTable ==
  /\ clusters = ConnectedClusters
  /\ selectedClusterId = ConnectedClusters[1].id
  /\ verifying = FALSE
  /\ errorMsg = "null"
  /\ pendingVerify = {}
  /\ connects = Len(ConnectedClusters)
  /\ isModalOpen = FALSE
  /\ presets = <<>>
  /\ storage = {}
  /\ reading = {}
  /\ mountEffect = "done"
  /\ selectedPresets = {}
  /\ batch = {}
  /\ exported = {}
  /\ exporting = 0
  /\ category = "Performance"
  /\ selectedFields = DEFAULT_FIELDS["Performance"]
  /\ data \in ResultSets
  /\ loading = FALSE
  /\ startTime = DefaultStartTime
  /\ endTime = DefaultEndTime
  /\ interval = 30
  /\ aggregationType = InitialParams.aggregationType
  /\ ratio = InitialParams.ratio
  /\ rf = InitialParams.rf
  /\ cvmVcore = InitialParams.cvmVcore
  /\ cvmMemory = InitialParams.cvmMemory
  /\ sortField = "null"
  /\ sortDirection = "asc"
  /\ expandedClusters = {}
  /\ inflight = {}
  /\ sent = {}
  /\ alerted = ""
  /\ latest = [id |-> 2, status |-> "ok", dataAtIssue |-> <<>>,
               overlapped |-> FALSE]

\* The table: the user clicks header cells and expands and collapses
\* cluster rows.
NextTable ==
  \/ \E field \in SortKeys : handleSort(field)
  \/ \E row \in Range(data) : toggleClusterExpansion(EntityName(row))

SpecTable == InitTable /\ [][NextTable]_vars

\* Export under races: the user selects a target, changes the category,
\* recalls the data and exports, while the query service and the export
\* service answer.
NextExport ==
  \/ \E i \in DOMAIN clusters : SelectCluster(i)
  \/ \E c \in CategorySet : SetCategory(c)
  \/ ApiRecall
  \/ \E f \in inflight : FetchOk(f)
  \/ \E f \in inflight : FetchFail(f)
  \/ exportToXLSX
  \/ ExportOk
  \/ ExportFail

SpecExport == InitTrigger /\ [][NextExport]_vars

\* The rows a Resources result set is drawn from: CPU and Memory rows with
\* and without clusterName, a row of another table and a row without table.
CapacityRowInputs ==
  {[table |-> "CPU", hostName |-> "h1", clusterName |-> "NTNX-X"],
   [table |-> "CPU", hostName |-> "h2"],
   [table |-> "Memory", hostName |-> "h1", clusterName |-> "NTNX-X"],
   [table |-> "Memory", hostName |-> "h2"],
   [table |-> "Storage", hostName |-> "h1"],
   [hostName |-> "h3"]}

CapacityResultSets ==
  UNION {{rows \in [1..n -> CapacityRowInputs] :
            \A i, j \in 1..n : i # j => rows[i] # rows[j]} : n \in 0..MaxRows}

\* the state after the first target was selected, the category was switched
\* to Resources, Apply & Fetch was pressed and the rows arrived
InitCapacity ==
  /\ clusters = ConnectedClusters
  /\ selectedClusterId = ConnectedClusters[1].id
  /\ verifying = FALSE
  /\ errorMsg = "null"
  /\ pendingVerify = {}
  /\ connects = Len(ConnectedClusters)
  /\ isModalOpen = FALSE
  /\ presets = <<>>
  /\ storage = {}
  /\ reading = {}
  /\ mountEffect = "done"
  /\ selectedPresets = {}
  /\ batch = {}
  /\ exported = {}
  /\ exporting = 0
  /\ category = "Resources"
  /\ selectedFields = DEFAULT_FIELDS["Resources"]
  /\ data \in CapacityResultSets
  /\ loading = FALSE
  /\ startTime = InitialParams.startTime
  /\ endTime = InitialParams.endTime
  /\ interval = InitialParams.interval
  /\ aggregationType = InitialParams.aggregationType
  /\ ratio = InitialParams.ratio
  /\ rf = InitialParams.rf
  /\ cvmVcore = InitialParams.cvmVcore
  /\ cvmMemory = InitialParams.cvmMemory
  /\ sortField = "null"
  /\ sortDirection = "asc"
  /\ expandedClusters = {}
  /\ inflight = {}
  /\ sent = {}
  /\ alerted = ""
  /\ latest = [id |-> 2, status |-> "ok", dataAtIssue |-> <<>>,
               overlapped |-> FALSE]

\* Capacity export: the user toggles columns and exports the rows on display
NextCapacity ==
  \/ \E key \in ToggleKeys(category) : ToggleField(key)
  \/ exportToXLSX
  \/ ExportOk
  \/ ExportFail

SpecCapacity == InitCapacity /\ [][NextCapacity]_vars

\* the console with the stored presets loaded and nothing connected
InitBatch ==
  /\ clusters = <<>>
  /\ selectedClusterId = "null"
  /\ verifying = FALSE
  /\ errorMsg = "null"
  /\ pendingVerify = {}
  /\ connects = 0
  /\ isModalOpen = FALSE
  /\ presets = StoredPresets
  /\ storage = {JSONstringify(StoredPresets)}
  /\ reading = {}
  /\ mountEffect = "done"
  /\ selectedPresets = {}
  /\ batch = {}
  /\ exported = {}
  /\ exporting = 0
  /\ category = "VM"
  /\ selectedFields = DEFAULT_FIELDS["VM"]
  /\ data = <<>>
  /\ loading = FALSE
  /\ startTime = InitialParams.startTime
  /\ endTime = InitialParams.endTime
  /\ interval = InitialParams.interval
  /\ aggregationType = InitialParams.aggregationType
  /\ ratio = InitialParams.ratio
  /\ rf = InitialParams.rf
  /\ cvmVcore = InitialParams.cvmVcore
  /\ cvmMemory = InitialParams.cvmMemory
  /\ sortField = "null"
  /\ sortDirection = "asc"
  /\ expandedClusters = {}
  /\ inflight = {}
  /\ sent = {}
  /\ alerted = ""
  /\ latest = NoFetch

\* a response of the verification service to a candidate of a batch
BatchReturn ==
  \E b \in batch :
    \/ \E name \in ClusterNames : BatchVerifyOk(b, name)
    \/ \E msg \in VerifyErrors : BatchVerifyFail(b, msg)

\* The connect workflows: the user opens and closes the modal, selects
\* presets, connects the form's candidate or the selected presets and
\* removes targets, while the verification service answers.
NextBatch ==
  \/ OpenModal
  \/ CloseModal
  \/ \E id \in {StoredPresets[i].id : i \in DOMAIN StoredPresets} :
       togglePresetSelection(id)
  \/ \E form \in FormInputs : HandleAddCluster(form)
  \/ \E name \in ClusterNames : VerifyOk(name)
  \/ \E msg \in VerifyErrors : VerifyFail(msg)
  \/ ConnectSelectedPresets
  \/ \E b \in batch : \E name \in ClusterNames : BatchVerifyOk(b, name)
  \/ \E b \in batch : \E msg \in VerifyErrors : BatchVerifyFail(b, msg)
  \/ \E i \in DOMAIN clusters : removeCluster(i)

SpecBatch == InitBatch /\ [][NextBatch]_vars

\* the batch connect alone
NextBatchOnly ==
  \/ OpenModal
  \/ CloseModal
  \/ \E id \in {StoredPresets[i].id : i \in DOMAIN StoredPresets} :
       togglePresetSelection(id)
  \/ ConnectSelectedPresets
  \/ \E b \in batch : \E name \in ClusterNames : BatchVerifyOk(b, name)
  \/ \E b \in batch : \E msg \in VerifyErrors : BatchVerifyFail(b, msg)
  \/ \E i \in DOMAIN clusters : removeCluster(i)

\* every verification request of a batch eventually returns
SpecBatchFair == InitBatch /\ [][NextBatchOnly]_vars /\ WF_vars(BatchReturn)

\* the console at its first render, before the mount effect has run
InitStore ==
  /\ clusters = <<>>
  /\ selectedClusterId = "null"
  /\ verifying = FALSE
  /\ errorMsg = "null"
  /\ pendingVerify = {}
  /\ connects = 0
  /\ isModalOpen = FALSE
  /\ presets = <<>>
  /\ storage \in StoredContents
  /\ reading = {}
  /\ mountEffect = "pending"
  /\ selectedPresets = {}
  /\ batch = {}
  /\ exported = {}
  /\ exporting = 0
  /\ category = "VM"
  /\ selectedFields = DEFAULT_FIELDS["VM"]
  /\ data = <<>>
  /\ loading = FALSE
  /\ startTime = InitialParams.startTime
  /\ endTime = InitialParams.endTime
  /\ interval = InitialParams.interval
  /\ aggregationType = InitialParams.aggregationType
  /\ ratio = InitialParams.ratio
  /\ rf = InitialParams.rf
  /\ cvmVcore = InitialParams.cvmVcore
  /\ cvmMemory = InitialParams.cvmMemory
  /\ sortField = "null"
  /\ sortDirection = "asc"
  /\ expandedClusters = {}
  /\ inflight = {}
  /\ sent = {}
  /\ alerted = ""
  /\ latest = NoFetch

\* The preset store: the mount effect loads it; the user opens and closes
\* the modal, saves, deletes, selects and imports presets, while the file
\* reads complete (Select All is left to the selection specification).
NextStore ==
  \/ LoadPresets
  \/ OpenModal
  \/ CloseModal
  \/ \E form \in PresetForms : saveAsPreset(form)
  \/ \E k \in DOMAIN presets : deletePreset(presets[k].id)
  \/ \E k \in DOMAIN presets : togglePresetSelection(presets[k].id)
  \/ deleteSelectedPresets
  \/ \E file \in ImportFiles : handleFileUpload(file)
  \/ \E r \in reading : FileLoaded(r)

SpecStore == InitStore /\ [][NextStore]_vars

\* Selection and connect: the user selects and deletes stored presets and
\* connects the selection, while the verification service answers.
NextSelection ==
  \/ OpenModal
  \/ CloseModal
  \/ \E k \in DOMAIN presets : deletePreset(presets[k].id)
  \/ \E k \in DOMAIN presets : togglePresetSelection(presets[k].id)
  \/ selectAllPresets
  \/ deselectAllPresets
  \/ deleteSelectedPresets
  \/ ConnectSelectedPresets
  \/ \E b \in batch : \E name \in ClusterNames : BatchVerifyOk(b, name)
  \/ \E b \in batch : \E msg \in VerifyErrors : BatchVerifyFail(b, msg)

SpecSelection == InitBatch /\ [][NextSelection]_vars


\* ----------------------------------------------------------------- claims

\* the request numbers answered by a step
AnsweredIds == {f.id : f \in inflight} \ {f.id : f \in inflight'}

\* the outstanding request of the mounted component that a step answers
AnsweredHere(f) == f \in inflight /\ ~f.orphan /\ f.id \in AnsweredIds

\* the latest request is outstanding and belongs to the mounted component
LatestOutstanding == \E f \in inflight : f.id = latest.id /\ ~f.orphan

\* a step in which the user confirms a fetch
TriggerFetch == ApiRecall \/ ApplyFetch

\* C1: the response to a request that a newer request has superseded is
\* discarded: the step that answers it leaves the result set as it is.
C1_StaleResponseDiscarded ==
  [][\A f \in inflight :
       (AnsweredHere(f) /\ f.id < latest.id) => data' = data]_vars

\* C2: with g1 outstanding when g2 is sent, once both are answered the result
\* set holds g2's rows, in either order of arrival: g2's rows are applied when
\* they arrive, and g1's answer arriving after them changes nothing.
C2_OnlyLatestVisible ==
  [][\A f \in inflight :
       AnsweredHere(f) =>
         /\ (f.id = latest.id /\ latest'.status = "ok") => data' = Rows(f)
         /\ (f.id < latest.id /\ latest.status = "ok"
               /\ Len(data) = 1 /\ data[1].fetch = latest.id) => data' = data]_vars

\* C3: the result set is empty or holds only rows of a fetch issued for the
\* active category.
C3_RowsOfActiveCategory ==
  \A i \in DOMAIN data : data[i].category = category

\* C4: while the most recently issued fetch is outstanding, loading is true.
C4_LoadingWhileLatestOutstanding ==
  LatestOutstanding => loading

\* C5: under Performance or Resources a request is sent only by a step of
\* Apply & Fetch or API Recall: neither the switch into the category, nor a
\* parameter edit, nor the selection of another target sends one.
C5_FetchOnlyOnConfirmation ==
  [][(sent' # {} /\ category' \in {"Performance", "Resources"})
       => TriggerFetch]_vars

\* C5 witness: after a parameter edit under Resources that sent nothing, the
\* user's confirmation has sent a request.
C5_Witness ==
  /\ category = "Resources"
  /\ cvmMemory # InitialParams.cvmMemory
  /\ sent # {}

\* C6: a step after which a target is selected and the category is VM or
\* Hardware, and which changed the selected target or the category, sends a
\* request for that target and category, and the component is loading.
C6_AutoFetch ==
  [][(/\ activeCluster' # {}
      /\ category' \in {"VM", "Hardware"}
      /\ (activeCluster' # activeCluster \/ category' # category))
       => \E cl \in activeCluster' :
            /\ cl.isVerified
            /\ sent' = {fetchData(cl, category', Params')}
            /\ \E f \in inflight' :
                 /\ f.id = latest'.id /\ f.id = latest.id + 1
                 /\ f.cluster = cl.id /\ f.category = category'
            /\ loading']_vars

\* C6 witness: the switch into Hardware has just sent the second request.
C6_Witness ==
  /\ category = "Hardware"
  /\ latest.id = 2
  /\ \E r \in sent : <<"category", "Hardware">> \in r.query
                     /\ r.body.id = selectedClusterId

\* the constraints of the Performance parameters
PerformanceValid(pp) ==
  pp.startTime # "" /\ pp.endTime # "" /\ pp.interval >= 1

\* C7: under Performance a fetch trigger with startTime or endTime missing or
\* intervalSeconds < 1 sends no request and changes neither loading nor data.
C7_PerformanceValidated ==
  [][(category = "Performance" /\ TriggerFetch /\ ~PerformanceValid(Params))
       => (sent' = {} /\ loading' = loading /\ data' = data)]_vars

\* the constraints of the Resources (capacity) parameters
ResourcesValid(pp) ==
  /\ pp.ratio \in 1..10
  /\ pp.rf \in {2, 3}
  /\ pp.cvmVcore >= 0
  /\ pp.cvmMemory >= 0

\* C8: under Resources a fetch trigger with cpuRatio outside 1..10,
\* replicationFactor outside {2, 3} or a negative reservation sends no request
\* and changes neither loading nor data.
C8_ResourcesValidated ==
  [][(category = "Resources" /\ TriggerFetch /\ ~ResourcesValid(Params))
       => (sent' = {} /\ loading' = loading /\ data' = data)]_vars

\* the latest request, outstanding in the mounted component, fails in a step
LatestFails ==
  /\ LatestOutstanding
  /\ latest.id \in AnsweredIds
  /\ latest'.status = "failed"

C10_IgnoreCacheCarried ==
  [][(ApiRecall /\ sent' # {})
       => \E r \in sent' : <<"ignoreCache", "true">> \in r.query
                           \/ "ignoreCache" \in DOMAIN r.body]_vars

\* C11: after any switch of the category to Performance the interval is 30
\* and the aggregation is average, whatever they were before, and the switch
\* sends no request.
C11_PerformanceSeeded ==
  [][SetCategory("Performance")
       => (interval' = 30 /\ aggregationType' = "average" /\ sent' = {})]_vars

\* C12: after any switch of the category to Resources the parameters are
\* ratio 3, rf 2 and both reservations 0, whatever they were before.
C12_ResourcesSeeded ==
  [][SetCategory("Resources")
       => (ratio' = 3 /\ rf' = 2 /\ cvmVcore' = 0 /\ cvmMemory' = 0)]_vars

\* C13: a step that changes the category leaves the selected columns equal
\* to the new category's default columns and the result set empty, whatever
\* they were before.
C13_CategoryResetsColumnsAndRows ==
  [][category' # category
       => (selectedFields' = DEFAULT_FIELDS[category'] /\ data' = <<>>)]_vars

\* C13 witness: rows had arrived and the switch to Performance cleared them.
C13_Witness ==
  /\ activeCluster # {}
  /\ category = "Performance"
  /\ latest.status = "ok"
  /\ selectedFields = DEFAULT_FIELDS["Performance"]
  /\ data = <<>>

\* fields lists columns of the category, in the order of FIELD_DEFINITIONS
CanonicalOrder(fields, cat) ==
  /\ Range(fields) \subseteq AvailableKeys(cat)
  /\ \A i, j \in DOMAIN fields :
       i < j => IndexOf(FIELD_DEFINITIONS[cat], fields[i])
                  < IndexOf(FIELD_DEFINITIONS[cat], fields[j])

\* C14: at every state the selected columns are columns of the active
\* category, listed in the category's canonical column order.
C14_ColumnsCanonical ==
  CanonicalOrder(selectedFields, category)

\* every key of every category's schema
AllFieldKeys == UNION {AvailableKeys(c) : c \in CategorySet}

ShownByRule(row, expanded) ==
  IF Has(row, "entityType") /\ row.entityType = "host"
  THEN Has(row, "parentCluster") /\ row.parentCluster \in expanded
  ELSE TRUE

\* C16: for a Performance result set the rows of the table are the sorted
\* rows that the visibility rule shows (a host row without parent or with a
\* collapsed parent is hidden), in the order of the sorted sequence.
C16_VisibleRows ==
  category = "Performance" =>
    \A engine \in Engines :
      RenderedRows(sortedData(engine), category, expandedClusters)
        = SelectSeq(sortedData(engine),
                    LAMBDA row : ShownByRule(row, expandedClusters))

\* the host rows on display whose parent is the cluster name
HostsOf(name) ==
  {row \in Range(data) :
     /\ isHostRow(row, category)
     /\ Has(row, "parentCluster") /\ row.parentCluster = name /\ name # ""}

\* the parents named by the rows on display
ParentNames ==
  {row.parentCluster : row \in {r \in Range(data) : Has(r, "parentCluster")}}

\* C17: with nothing expanded every host row with a parent is hidden; a
\* toggle of e flips the membership of e alone, flips the visibility of the
\* host rows of e, changes the visibility of no other host row, and a second
\* toggle of e restores the expanded set.
C17_ToggleExpansion ==
  [][/\ expandedClusters = {}
        => \A row \in Range(data) :
             (\E name \in ParentNames : row \in HostsOf(name))
               => Hidden(row, category, expandedClusters)
     /\ expandedClusters' # expandedClusters
        => \E e \in {EntityName(row) : row \in Range(data)} :
             /\ toggleClusterExpansion(e)
             /\ (e \in expandedClusters') = (e \notin expandedClusters)
             /\ expandedClusters' \ {e} = expandedClusters \ {e}
             /\ toggleExpansion(expandedClusters', e) = expandedClusters
             /\ \A row \in Range(data) :
                  isHostRow(row, category) =>
                    IF row \in HostsOf(e)
                    THEN Hidden(row, category, expandedClusters')
                           = ~Hidden(row, category, expandedClusters)
                    ELSE Hidden(row, category, expandedClusters')
                           = Hidden(row, category, expandedClusters)]_vars

\* C17 witness: C1 is expanded and a host row of C1 is on display.
C17_Witness ==
  /\ "C1" \in expandedClusters
  /\ \E row \in Range(data) : isClusterRow(row, category) /\ EntityName(row) = "C1"
  /\ \E row \in HostsOf("C1") : ~Hidden(row, category, expandedClusters)

\* C18: in the sorted rows no row lacking the sort field precedes a row that
\* has it, for both directions.
C18_MissingSortsLast ==
  sortField # "null" =>
    \A engine \in Engines :
      \A i, j \in DOMAIN data :
        i < j => ~(/\ ~Has(sortedData(engine)[i], sortField)
                   /\ Has(sortedData(engine)[j], sortField))

\* C18 witness: sorted descending by iops, with a row lacking iops in front
\* of a row that has it in the result set.
C18_Witness ==
  /\ sortField = "iops"
  /\ sortDirection = "desc"
  /\ \E i, j \in DOMAIN data :
       i < j /\ ~Has(data[i], "iops") /\ Has(data[j], "iops")

\* C19: a click on the header of the sort field flips the direction and
\* keeps the field; a click on another header makes it the sort field with
\* direction ascending, whatever the direction was.
C19_HeaderClick ==
  [][\A field \in SortKeys :
       handleSort(field) =>
         IF sortField = field
         THEN /\ sortField' = field
              /\ sortDirection' = (IF sortDirection = "asc" THEN "desc" ELSE "asc")
         ELSE /\ sortField' = field
              /\ sortDirection' = "asc"]_vars

\* C19 witness: two clicks on the same header have turned the direction to
\* descending.
C19_Witness ==
  /\ sortField = "entityName"
  /\ sortDirection = "desc"
  /\ data # <<>>

\* the comparison on the field does not order the two rows: equal values, or
\* both lack the field
Unordered(a, b, field, dir) ==
  IF Has(a, field) /\ Has(b, field)
  THEN comparefn(a, b, field, dir) = 0
  ELSE ~Has(a, field) /\ ~Has(b, field)

\* C20: two rows that the comparison on the sort field does not order keep
\* in the sorted rows the relative order they have in the result set, for
\* both directions.
C20_SortStable ==
  sortField # "null" =>
    \A engine \in Engines :
      \A i, j \in DOMAIN data :
        (i < j /\ Unordered(data[i], data[j], sortField, sortDirection))
          => IndexOf(sortedOrder(engine), i) < IndexOf(sortedOrder(engine), j)

\* the rows on display that carry the given table tag, in display order
WithTable(t) == SelectSeq(data, LAMBDA row : "table" \in DOMAIN row /\ row.table = t)

\* C21: a Capacity export sends the rows tagged CPU and the rows tagged
\* Memory as two subsets, each with its fixed column list and labels, and
\* tagged isResources = true; the column lists and label maps are these
\* fixed ones whatever columns the user has selected.
C21_CapacityExport ==
  \A req \in exported :
    category = "Resources" =>
      /\ "isResources" \in DOMAIN req /\ req.isResources = TRUE
      /\ req.cpuData = WithTable("CPU")
      /\ req.memoryData = WithTable("Memory")
      /\ req.data = WithTable("CPU") \o WithTable("Memory")
      /\ req.cpuFields = <<"hostName", "vmCount", "numaOver", "pCore",
                           "useVCore", "recommendVcoreRatio",
                           "currentVcoreRatio", "result">>
      /\ req.memoryFields = <<"hostName", "vmCount", "numaOver", "memoryGiB",
                              "useMemoryGiB", "recommendUse",
                              "availableMemory", "result">>
      /\ DOMAIN req.cpuFieldLabels = Range(req.cpuFields)
      /\ DOMAIN req.memoryFieldLabels = Range(req.memoryFields)
      /\ req.cpuFieldLabels = cpuFieldLabels
      /\ req.memoryFieldLabels = memoryFieldLabels

\* a Capacity export of CPU and Memory rows (and a row of neither table)
\* made after the user changed the column selection
C21_Witness ==
  /\ exported # {}
  /\ category = "Resources"
  /\ selectedFields # DEFAULT_FIELDS["Resources"]
  /\ WithTable("CPU") # <<>>
  /\ WithTable("Memory") # <<>>
  /\ Len(WithTable("CPU")) + Len(WithTable("Memory")) < Len(data)

\* C22: no request is sent to the export service in a state where the
\* result set is empty or a fetch of the component is in flight.
C22_NoExportWhileFetching ==
  exported # {} => (data # <<>> /\ \A f \in inflight : f.orphan)

\* the verification requests awaiting their response
Outstanding == pendingVerify \cup {b.current : b \in RunningBatches}

\* the verification requests a step answers
AnsweredVerify == Outstanding \ Outstanding'

\* the batch call b as a step leaves it
After(b) == {d \in batch' : d.list = b.list /\ d.i >= b.i /\ d # b}

\* C23: a candidate whose api-version is v4.0 is never handed to the
\* verification service and never added to the connection set, on the
\* single-target path and in a batch alike.
C23_V4NeverVerified ==
  /\ \A c \in Outstanding : c.apiVersion # "v4.0"
  /\ \A k \in DOMAIN clusters : clusters[k].apiVersion # "v4.0"

\* C24: every target of the connection set is verified; the set grows only
\* by the step that answers a verification request with success, which
\* appends the candidate with isVerified = true and the name the service
\* returned; a step that answers a request with a failure leaves the set
\* unchanged and surfaces the returned message (as the error message on the
\* single-target path, as the failure entry of the candidate and, at the end
\* of the batch, in the report on the batch path).
C24_AddedOnlyVerified ==
  /\ [](\A k \in DOMAIN clusters : clusters[k].isVerified)
  /\ [][/\ Len(clusters') > Len(clusters) =>
          \E c \in AnsweredVerify : \E name \in ClusterNames :
            clusters' = Append(clusters, [c EXCEPT !.name = name,
                                                   !.isVerified = TRUE])
       /\ \A c \in AnsweredVerify :
            Len(clusters') <= Len(clusters) =>
              /\ clusters' = clusters
              /\ c \in pendingVerify => errorMsg' \in VerifyErrors
              /\ \A b \in RunningBatches :
                   b.current = c =>
                     \E d \in After(b) :
                       /\ Len(d.failureList) = Len(b.failureList) + 1
                       /\ d.failureList[Len(d.failureList)].ip = c.ip
                       /\ d.failureList[Len(d.failureList)].error
                            \in VerifyErrors
                       /\ d.done => errorMsg' = BatchReport(d.successList,
                                                            d.failureList)
     ]_vars

\* a target was connected through the form, a second attempt failed
C24_Witness ==
  /\ Len(clusters) = 1
  /\ clusters[1].id = "1"
  /\ clusters[1].name \in ClusterNames
  /\ errorMsg \in VerifyErrors
  /\ ~verifying

\* C25: a batch attempts every candidate whatever the earlier outcomes:
\* while it runs it has one outcome for each candidate before the current
\* one, and when it has completed successes + failures = n, every candidate
\* has exactly one outcome, and every failure names its candidate and the
\* reason.
C25_OneOutcomePerCandidate ==
  \A b \in batch :
    /\ Len(b.successList) + Len(b.failureList)
         = (IF b.done THEN Len(b.list) ELSE b.i - 1)
    /\ \A j \in 1..(IF b.done THEN Len(b.list) ELSE b.i - 1) :
         Cardinality({k \in DOMAIN b.successList :
                        b.successList[k] = b.list[j].ip})
         + Cardinality({k \in DOMAIN b.failureList :
                          b.failureList[k].ip = b.list[j].ip}) = 1
    /\ \A k \in DOMAIN b.failureList : b.failureList[k].error \in VerifyErrors

\* a batch of three candidates of which the second failed has completed,
\* and both successful candidates are in the connection set
C25_Witness ==
  \E b \in batch :
    /\ b.done
    /\ Len(b.list) = 3
    /\ b.successList = <<b.list[1].ip, b.list[3].ip>>
    /\ Len(b.failureList) = 1
    /\ b.failureList[1].ip = b.list[2].ip
    /\ \E k \in DOMAIN clusters : clusters[k].ip = b.list[1].ip
    /\ \E k \in DOMAIN clusters : clusters[k].ip = b.list[3].ip

\* C26: the step that completes a batch leaves the preset selection and the
\* modal as they are and sets the report (success count and every failure)
\* when a candidate failed, and clears the selection and closes the modal
\* when all succeeded.
C26_BatchCompletion ==
  [][\A b \in RunningBatches : \A d \in After(b) :
       d.done =>
         IF Len(d.failureList) > 0
         THEN /\ selectedPresets' = selectedPresets
              /\ isModalOpen' = isModalOpen
              /\ errorMsg' =
                   "Successfully connected: "
                   \o toString(Len(d.successList))
                   \o "\n\nFailed connections:\n"
                   \o Join([k \in DOMAIN d.failureList |->
                              Bullet \o " " \o d.failureList[k].ip \o ": "
                              \o d.failureList[k].error], "\n")
         ELSE /\ selectedPresets' = {}
              /\ isModalOpen' = FALSE]_vars

\* a batch of all three presets completed with its second candidate failed:
\* the three presets are still selected, the modal is open and shows the
\* report
C26_Witness ==
  /\ \E b \in batch : b.done /\ Len(b.failureList) = 1 /\ Len(b.list) = 3
  /\ ~verifying
  /\ isModalOpen
  /\ Cardinality(selectedPresets) = 3
  /\ errorMsg = "Successfully connected: 2\n\nFailed connections:\n"
                \o Bullet \o " 10.0.0.2: Verification failed"

\* sequence s with some elements appended
IsPrefix(s, t) == Len(s) <= Len(t) /\ \A k \in DOMAIN s : t[k] = s[k]

\* C27: the step that records the success of a candidate of a batch has the
\* verified candidate in the connection set, so it is there before the next
\* verification is outstanding; and no step but the user's removal takes a
\* target out of the connection set: in particular not the failure of a
\* later candidate, nor closing the modal while the batch runs.
C27_IncrementalAdds ==
  [][/\ \A b \in RunningBatches : \A d \in After(b) :
          Len(d.successList) > Len(b.successList) =>
            \E k \in DOMAIN clusters' :
              /\ clusters'[k].id = b.current.id
              /\ clusters'[k].isVerified
    /\ \/ \E i \in DOMAIN clusters : removeCluster(i)
       \/ IsPrefix(clusters, clusters')]_vars

\* the first candidate of a batch succeeded, the second failed, the modal
\* was closed meanwhile, and the first is in the connection set
C27_Witness ==
  \E b \in batch :
    /\ Len(b.successList) = 1
    /\ Len(b.failureList) >= 1
    /\ b.successList[1] = b.list[1].ip
    /\ ~isModalOpen
    /\ \E k \in DOMAIN clusters : clusters[k].ip = b.list[1].ip

\* C28: at most one verification request is outstanding, whether of the
\* single-target connect or of a batch.
C28_OneVerificationAtATime ==
  Cardinality(pendingVerify) + Cardinality(RunningBatches) <= 1

\* a batch is verifying its second candidate while the modal is open with
\* presets selected
C28_Witness ==
  /\ \E b \in RunningBatches : b.i = 2
  /\ verifying
  /\ isModalOpen
  /\ Cardinality(selectedPresets) >= 2

\* C29: when every verification request returns, a started batch completes:
\* verifying is false again and the batch has an outcome for every candidate.
C29_BatchCompletes ==
  (RunningBatches # {}) ~>
    (/\ ~verifying
     /\ RunningBatches = {}
     /\ \E b \in batch :
          b.done /\ Len(b.successList) + Len(b.failureList) = Len(b.list))

\* a batch in which every candidate failed has completed
C29_Witness ==
  /\ ~verifying
  /\ \E b \in batch : b.done /\ Len(b.failureList) = Len(b.list)

\* the ids of the connection set
ClusterIds == {clusters[k].id : k \in DOMAIN clusters}

\* C30: no two targets of the connection set have the same id, and a step
\* leaves the targets it keeps as they are, id included: a record of the
\* new set is a record of the old one or has an id that is new.
C30_UniqueStableIds ==
  /\ [](\A j, k \in DOMAIN clusters :
          clusters[j].id = clusters[k].id => j = k)
  /\ [][\A k \in DOMAIN clusters' :
          \/ \E j \in DOMAIN clusters : clusters'[k] = clusters[j]
          \/ clusters'[k].id \notin ClusterIds]_vars

\* a target connected through the form and two connected by a batch of
\* three whose last candidate is under verification
C30_Witness ==
  /\ Len(clusters) = 3
  /\ connects = 4
  /\ \E k \in DOMAIN clusters : clusters[k].id = "1"

\* the ids of the stored presets
PresetIds == {presets[k].id : k \in DOMAIN presets}

\* C31: once the presets are loaded, the persisted preset sequence is the
\* in-memory one in every state: localStorage holds the JSON text of
\* presets, or holds nothing while no preset was ever saved.
C31_WriteThrough ==
  mountEffect = "done" =>
    IF storage = {} THEN presets = <<>>
    ELSE storage = {JSONstringify(presets)}

\* a preset saved from the reset form (its apiVersion undefined in memory,
\* left out of the stored text) and an imported one are in the store, and
\* no read is under way
C31_Witness ==
  /\ mountEffect = "done"
  /\ reading = {}
  /\ \E k \in DOMAIN presets : presets[k].apiVersion = "undefined"
  /\ \E k \in DOMAIN presets : presets[k].ip = "10.0.0.7"

\* the notices of the import for a file it rejects
ImportNotices ==
  {"Failed to parse the JSON file. Please check the format.",
   "Invalid JSON format. Expected an array of objects.",
   "No valid data found in the template."}

\* C32: loading the presets on first use never lets the parse failure out
\* of the component; with malformed stored content a notice is shown.
C32_LoadTolerant ==
  /\ mountEffect # "threw"
  /\ (mountEffect = "done" /\ storage = {NotJSON}) => errorMsg # "null"

\* a file the import has to reject: its text is not JSON, it is not an
\* array, or no entry of the array supplies ip, username and password
Rejected(file) ==
  \/ ~file.wellFormed
  \/ ~file.isArray
  \/ ~\E k \in DOMAIN file.items : Acceptable(file.items[k])

\* C33: the step that completes the read of a file that is not JSON, not an
\* array or without an acceptable entry sets one of the import notices and
\* leaves presets and localStorage as they were.
C33_RejectedImportKeepsStore ==
  [][\A r \in reading :
       (r \notin reading' /\ Rejected(r.file))
         => /\ errorMsg' \in ImportNotices
            /\ presets' = presets
            /\ storage' = storage]_vars

\* an array without an acceptable entry was rejected while the store held a
\* preset
C33_Witness ==
  /\ errorMsg = "No valid data found in the template."
  /\ reading = {}
  /\ presets # <<>>
  /\ storage = {JSONstringify(presets)}

\* C34: the step that completes the read of an array appends to the store
\* the presets made of its acceptable entries, in input order, after the
\* presets the store holds; the other entries change nothing.
C34_ImportAppendsAcceptable ==
  [][\A r \in reading :
       (r \notin reading' /\ r.file.wellFormed /\ r.file.isArray)
         => presets' = presets \o newPresets(r.file.items, connects + 1)]_vars

\* C35: the registry has an entry for each of the four categories and the
\* active category is always one of them; no column key occurs twice in a
\* category's columns; the default columns of a category are columns of it.
C35_RegistryTotal ==
  /\ category \in CategorySet
  /\ Cardinality(CategorySet) = 4
  /\ DOMAIN FIELD_DEFINITIONS = CategorySet
  /\ DOMAIN DEFAULT_FIELDS = CategorySet
  /\ \A c \in CategorySet :
       /\ \A i, j \in DOMAIN FIELD_DEFINITIONS[c] :
            FIELD_DEFINITIONS[c][i] = FIELD_DEFINITIONS[c][j] => i = j
       /\ \A i \in DOMAIN DEFAULT_FIELDS[c] :
            \E j \in DOMAIN FIELD_DEFINITIONS[c] :
              DEFAULT_FIELDS[c][i] = FIELD_DEFINITIONS[c][j]

\* the registry was looked up for Resources: its default columns are the
\* selected ones of a selected target
C35_Witness ==
  /\ activeCluster # {}
  /\ category = "Resources"
  /\ selectedFields = DEFAULT_FIELDS["Resources"]
  /\ selectedFields # DEFAULT_FIELDS["VM"]

\* the names of the parameters the query of a request carries
QueryKeys(r) == {p[1] : p \in r.query} \ {"category"}

\* C36: the request of a fetch carries every parameter of its category:
\* ratio, rf, cvmVcore and cvmMemory for Resources; startTime, endTime,
\* interval and aggregationType for Performance; none for VM and Hardware.
C36_FullParametersCarried ==
  [][\A r \in sent' :
       /\ <<"category", "Resources">> \in r.query
            => QueryKeys(r) = {"ratio", "rf", "cvmVcore", "cvmMemory"}
       /\ <<"category", "Performance">> \in r.query
            => QueryKeys(r) = {"startTime", "endTime", "interval",
                               "aggregationType"}
       /\ (<<"category", "VM">> \in r.query
             \/ <<"category", "Hardware">> \in r.query)
            => QueryKeys(r) = {}]_vars

\* C37: the selected target is none or a verified target of the connection
\* set, and the step that moves the selection to another target leaves no
\* row fetched from another target in the result set the table shows (the
\* table is shown while loading is false).
C37_RowsOfSelectedTarget ==
  /\ [](/\ \A cl \in activeCluster :
            cl.isVerified /\ \E k \in DOMAIN clusters : clusters[k] = cl
        /\ selectedClusterId \notin {"null", ""} => activeCluster # {})
  /\ [][(selectedClusterId' # selectedClusterId /\ activeCluster' # {}
          /\ ~loading')
         => \A k \in DOMAIN data' : data'[k].cluster = selectedClusterId']_vars

\* C38: the selection holds only ids of stored presets, and a Connect with
\* two or more presets selected verifies as many candidates as are selected.
C38_SelectionWithinStore ==
  /\ [](selectedPresets \subseteq PresetIds)
  /\ [][ConnectSelectedPresets =>
          \E b \in batch' :
            ~b.done /\ Len(b.list) = Cardinality(selectedPresets)]_vars

\* C39: the step that completes the read of an import keeps every preset
\* the store holds at that time, in place, and adds only after them: a
\* preset saved during the read stays, a preset deleted during the read
\* does not come back.
C39_ImportLosesNothing ==
  [][\A r \in reading :
       r \notin reading' =>
         /\ IsPrefix(presets, presets')
         /\ \A k \in DOMAIN presets' :
              k > Len(presets) => presets'[k].id \notin
                                    {r.presets[j].id : j \in DOMAIN r.presets}]_vars
====
